---------------------------- MODULE Spec2Model ----------------------------
(***************************************************************************)
(* Zone detection, soil pH correction, variety suitability scoring,        *)
(* recommendation generation and the batch loop of                         *)
(* FixedNABARDRecommendationEngine                                         *)
(* (Reco_Engine_v2/engine/recommendation_engine.py), with the zone         *)
(* detection, the profile builder and the scorer of the v1 engine beside   *)
(* it, the loading of the variety catalog by both engines, and the         *)
(* reporting loop of main.py.                                              *)
(*                                                                         *)
(* Number representation.  The engine computes on floats; the model uses   *)
(* exact integer arithmetic on fixed grids:                                *)
(*   - lat, lon       : half degrees (lat = 57 is 28.5 degrees), so that   *)
(*                      every bounding-box centre is on the grid;          *)
(*   - soil pH        : thousandths of a pH unit (6900 is pH 6.9);         *)
(*   - rainfall       : units of 100 mm (mm in the loaded catalogs of      *)
(*                      SpecLoad); temperature: degrees Celsius;           *)
(*   - pH ranges used by the scorer: thousandths as well;                  *)
(*   - a score        : an exact fraction [n, d] with d > 0;               *)
(*   - carbon         : tenths of tCO2/ha/yr.                              *)
(* The distance ratios of the scorer are scale invariant, so the units do  *)
(* not change a score.  Float rounding error (one unit in the last place)  *)
(* is not modelled.                                                        *)
(***************************************************************************)
EXTENDS Integers, Sequences, FiniteSets, TLC

VARIABLES
    zone_mappings,   \* self.zone_mappings: the zone catalog, in dict order
    database,        \* self.database: the three variety lists
    lat, lon,        \* arguments of detect_zone_from_coordinates (half degrees)
    detected,        \* its return value ("" before the call)
    detected_v1,     \* what the same call returns in the v1 engine
    raw_ph,          \* argument of _fix_soil_ph_value
    fixed_ph,        \* its return value (-1 before the call)
    farm_profile,    \* the EnhancedFarmProfile handed to the scorer / generator
    variety,         \* the variety handed to calculate_enhanced_suitability_score
    score,           \* its return value
    score_v1,        \* what the same call does in the v1 engine
    top_n,           \* the top_n argument of generate_recommendations
    result,          \* the dict generate_recommendations returns
    carbon,          \* the tuple _calculate_realistic_carbon_potential returns
    weather_df,      \* batch input: the weather rows
    satellite_df,    \* batch input: the satellite rows
    soil_df,         \* batch input: the soil rows
    farms_df,        \* batch input: the farm ids of the farms file (main.py)
    farm_ids,        \* analyze_all_farms: weather_df['farm_id'].unique()
    idx,             \* analyze_all_farms: position of the for loop
    stage,           \* analyze_all_farms: position inside the loop body
    cur_profile,     \* analyze_all_farms: local farm_profile
    cur_recs,        \* analyze_all_farms: local recommendations
    cur_file,        \* analyze_all_farms: local filename
    all_results,     \* analyze_all_farms: the dict it returns
    files,           \* the per-farm files written so far
    log,             \* analyze_all_farms: what each farm's iteration logged
    summary,         \* main.py: what the pipeline reports for the batch
    pc               \* which call has been made / where the batch is

vars == <<zone_mappings, database, lat, lon, detected, detected_v1, raw_ph,
                   fixed_ph,
          farm_profile, variety, score, score_v1, top_n, result, carbon,
          weather_df, satellite_df, soil_df, farms_df, farm_ids, idx, stage,
          cur_profile, cur_recs, cur_file, all_results, files, log, summary, pc>>

None == [none |-> TRUE]

Max(a, b) == IF a >= b THEN a ELSE b
Min(a, b) == IF a <= b THEN a ELSE b

---------------------------------------------------------------------------
(* The zone catalog: _initialize_complete_zone_mappings.  Only the fields   *)
(* that zone detection and the result use are kept (id, the bounding box,   *)
(* the characteristics' climate type); bounds are in whole degrees.         *)

Zone(id, la, lo, ct) ==
    [id |-> id, lat_range |-> la, lon_range |-> lo, climate_type |-> ct]

ZoneMappings ==
    << Zone("Zone_1_Western_Himalayan",  <<28, 37>>, <<74, 80>>, "Temperate to alpine"),
       Zone("Zone_2_Eastern_Himalayan",  <<26, 30>>, <<88, 98>>, "Humid temperate"),
       Zone("Zone_3_Lower_Gangetic",     <<22, 26>>, <<86, 92>>, "Humid subtropical"),
       Zone("Zone_4_Middle_Gangetic",    <<24, 27>>, <<82, 88>>, "Humid subtropical"),
       Zone("Zone_5_Upper_Gangetic",     <<26, 31>>, <<77, 84>>, "Semi-arid to sub-humid"),
       Zone("Zone_6_Trans_Gangetic",     <<28, 33>>, <<74, 78>>, "Semi-arid"),
       Zone("Zone_7_Eastern_Plateau",    <<21, 25>>, <<82, 88>>, "Sub-humid"),
       Zone("Zone_8_Central_Plateau",    <<21, 26>>, <<74, 82>>, "Sub-humid to semi-arid"),
       Zone("Zone_9_Western_Plateau",    <<17, 24>>, <<72, 77>>, "Semi-arid"),
       Zone("Zone_10_Southern_Plateau",  <<12, 20>>, <<74, 80>>, "Semi-arid to sub-humid"),
       Zone("Zone_11_East_Coast",        <<17, 22>>, <<82, 87>>, "Sub-humid coastal"),
       Zone("Zone_12_West_Coast",        <<8, 17>>,  <<72, 77>>, "Humid tropical"),
       Zone("Zone_13_Gujarat",           <<20, 25>>, <<68, 75>>, "Semi-arid to arid"),
       Zone("Zone_14_Western_Dry",       <<24, 30>>, <<69, 76>>, "Arid to semi-arid"),
       Zone("Zone_15_Island",            <<6, 14>>,  <<71, 94>>, "Tropical maritime") >>

ZoneIds(zm) == {zm[i].id : i \in 1..Len(zm)}

\* lat_min <= lat <= lat_max and lon_min <= lon <= lon_max (lat, lon in half degrees)
Contains(z, la, lo) ==
    /\ 2 * z.lat_range[1] <= la /\ la <= 2 * z.lat_range[2]
    /\ 2 * z.lon_range[1] <= lo /\ lo <= 2 * z.lon_range[2]

\* The box centre ((min + max) / 2) in half degrees.
CenterLat(z) == z.lat_range[1] + z.lat_range[2]
CenterLon(z) == z.lon_range[1] + z.lon_range[2]

\* distance ** 2 in half degrees.  The code compares distance itself, and
\* score = 1 / (1 + distance); both are monotone in the squared distance.
Dist2(z, la, lo) ==
    (la - CenterLat(z)) * (la - CenterLat(z)) + (lo - CenterLon(z)) * (lo - CenterLon(z))

\* First loop: among the containing zones the best score, i.e. the strictly
\* smaller distance replaces the running best (score > best_score).
\* The running best is [match, d2]; match = "" stands for None.
RECURSIVE BestMatchFrom(_, _, _, _, _)
BestMatchFrom(zm, i, la, lo, best) ==
    IF i > Len(zm) THEN best
    ELSE LET z == zm[i] IN
         IF Contains(z, la, lo) /\ (best.match = "" \/ Dist2(z, la, lo) < best.d2)
         THEN BestMatchFrom(zm, i + 1, la, lo, [match |-> z.id, d2 |-> Dist2(z, la, lo)])
         ELSE BestMatchFrom(zm, i + 1, la, lo, best)

\* A plausible slip: the first containing zone is kept, the score is not compared.
RECURSIVE BestMatchFirstContaining(_, _, _, _, _)
BestMatchFirstContaining(zm, i, la, lo, best) ==
    IF i > Len(zm) THEN best
    ELSE LET z == zm[i] IN
         IF Contains(z, la, lo) /\ best.match = ""
         THEN BestMatchFirstContaining(zm, i + 1, la, lo, [match |-> z.id, d2 |-> Dist2(z, la, lo)])
         ELSE BestMatchFirstContaining(zm, i + 1, la, lo, best)

BestMatchKeepFirst(zm, la, lo) ==
    BestMatchFirstContaining(zm, 1, la, lo, [match |-> "", d2 |-> 0])

\* A plausible slip: score >= best_score, so that of two containing zones at
\* the same distance the later one is kept.
RECURSIVE BestMatchFromLatest(_, _, _, _, _)
BestMatchFromLatest(zm, i, la, lo, best) ==
    IF i > Len(zm) THEN best
    ELSE LET z == zm[i] IN
         IF Contains(z, la, lo) /\ (best.match = "" \/ Dist2(z, la, lo) <= best.d2)
         THEN BestMatchFromLatest(zm, i + 1, la, lo, [match |-> z.id, d2 |-> Dist2(z, la, lo)])
         ELSE BestMatchFromLatest(zm, i + 1, la, lo, best)

BestMatchKeepLast(zm, la, lo) ==
    BestMatchFromLatest(zm, 1, la, lo, [match |-> "", d2 |-> 0])

BestMatch(zm, la, lo) ==
    BestMatchFrom(zm, 1, la, lo, [match |-> "", d2 |-> 0])

\* Second loop: the closest centre over all zones (distance < min_distance,
\* min_distance starting at infinity, closest_zone at None).
RECURSIVE ClosestFrom(_, _, _, _, _)
ClosestFrom(zm, i, la, lo, best) ==
    IF i > Len(zm) THEN best
    ELSE LET z == zm[i] IN
         IF best.match = "" \/ Dist2(z, la, lo) < best.d2
         THEN ClosestFrom(zm, i + 1, la, lo, [match |-> z.id, d2 |-> Dist2(z, la, lo)])
         ELSE ClosestFrom(zm, i + 1, la, lo, best)

\* A plausible slip: the comparison of the fallback loop reversed.
RECURSIVE ClosestFarthest(_, _, _, _, _)
ClosestFarthest(zm, i, la, lo, best) ==
    IF i > Len(zm) THEN best
    ELSE LET z == zm[i] IN
         IF best.match = "" \/ Dist2(z, la, lo) > best.d2
         THEN ClosestFarthest(zm, i + 1, la, lo, [match |-> z.id, d2 |-> Dist2(z, la, lo)])
         ELSE ClosestFarthest(zm, i + 1, la, lo, best)

ClosestZoneReversed(zm, la, lo) ==
    ClosestFarthest(zm, 1, la, lo, [match |-> "", d2 |-> 0])

ClosestZone(zm, la, lo) ==
    ClosestFrom(zm, 1, la, lo, [match |-> "", d2 |-> 0])

\* A plausible slip: the closest-zone fallback left out, a point outside
\* every box getting a placeholder.
DetectNoFallback(zm, la, lo) ==
    LET best_match == BestMatch(zm, la, lo).match
    IN  IF best_match # "" THEN best_match ELSE "Unknown"

detect_zone_from_coordinates(zm, la, lo) ==
    LET best_match == BestMatch(zm, la, lo).match
        closest_zone == ClosestZone(zm, la, lo).match
    IN  IF best_match # "" THEN best_match
        ELSE IF closest_zone # "" THEN closest_zone
        ELSE "Zone_10_Southern_Plateau"

\* The v1 engine (Reco_Engine_v1): its zone catalog, transcribed from its
\* own _initialize_complete_zone_mappings, and its own
\* detect_zone_from_coordinates.
v1_zone_mappings ==
    << Zone("Zone_1_Western_Himalayan",  <<28, 37>>, <<74, 80>>, "Temperate to alpine"),
       Zone("Zone_2_Eastern_Himalayan",  <<26, 30>>, <<88, 98>>, "Humid temperate"),
       Zone("Zone_3_Lower_Gangetic",     <<22, 26>>, <<86, 92>>, "Humid subtropical"),
       Zone("Zone_4_Middle_Gangetic",    <<24, 27>>, <<82, 88>>, "Humid subtropical"),
       Zone("Zone_5_Upper_Gangetic",     <<26, 31>>, <<77, 84>>, "Semi-arid to sub-humid"),
       Zone("Zone_6_Trans_Gangetic",     <<28, 33>>, <<74, 78>>, "Semi-arid"),
       Zone("Zone_7_Eastern_Plateau",    <<21, 25>>, <<82, 88>>, "Sub-humid"),
       Zone("Zone_8_Central_Plateau",    <<21, 26>>, <<74, 82>>, "Sub-humid to semi-arid"),
       Zone("Zone_9_Western_Plateau",    <<17, 24>>, <<72, 77>>, "Semi-arid"),
       Zone("Zone_10_Southern_Plateau",  <<12, 20>>, <<74, 80>>, "Semi-arid to sub-humid"),
       Zone("Zone_11_East_Coast",        <<17, 22>>, <<82, 87>>, "Sub-humid coastal"),
       Zone("Zone_12_West_Coast",        <<8, 17>>,  <<72, 77>>, "Humid tropical"),
       Zone("Zone_13_Gujarat",           <<20, 25>>, <<68, 75>>, "Semi-arid to arid"),
       Zone("Zone_14_Western_Dry",       <<24, 30>>, <<69, 76>>, "Arid to semi-arid"),
       Zone("Zone_15_Island",            <<6, 14>>,  <<71, 94>>, "Tropical maritime") >>

\* A plausible slip in the v1 engine: score >= best_score in its first loop.
V1DetectKeepLast(zm, la, lo) ==
    LET best_match == BestMatchKeepLast(zm, la, lo).match
        closest_zone == ClosestZone(zm, la, lo).match
    IN  IF best_match # "" THEN best_match
        ELSE IF closest_zone # "" THEN closest_zone
        ELSE "Zone_10_Southern_Plateau"

\* v1's two loops, written out from its source: best is [match, d2], with
\* match = "" for None.  The first loop keeps a containing zone when its
\* score is strictly greater (its distance strictly smaller) than the best
\* so far, the second a zone whose distance is strictly smaller than
\* min_distance.
v1_detect_zone_from_coordinates(zm, la, lo) ==
    LET RECURSIVE First(_, _)
        First(i, best) ==
            IF i > Len(zm) THEN best
            ELSE IF Contains(zm[i], la, lo)
                    /\ (best.match = "" \/ Dist2(zm[i], la, lo) < best.d2)
                 THEN First(i + 1, [match |-> zm[i].id, d2 |-> Dist2(zm[i], la, lo)])
                 ELSE First(i + 1, best)
        RECURSIVE Second(_, _)
        Second(i, best) ==
            IF i > Len(zm) THEN best
            ELSE IF best.match = "" \/ Dist2(zm[i], la, lo) < best.d2
                 THEN Second(i + 1, [match |-> zm[i].id, d2 |-> Dist2(zm[i], la, lo)])
                 ELSE Second(i + 1, best)
        best_match == First(1, [match |-> "", d2 |-> 0]).match
        closest_zone == Second(1, [match |-> "", d2 |-> 0]).match
    IN  IF best_match # "" THEN best_match
        ELSE IF closest_zone # "" THEN closest_zone
        ELSE "Zone_10_Southern_Plateau"

---------------------------------------------------------------------------
(* Soil pH: _fix_soil_ph_value and _classify_ph_status.  A raw value is a   *)
(* number in thousandths (Num), pandas NaN, or a non-numeric cell (Text);   *)
(* the raw numbers of the model are multiples of 0.1, so the two divisions  *)
(* are exact.                                                               *)

Num(v) == [nan |-> FALSE, text |-> FALSE, v |-> v]
NaN == [nan |-> TRUE, text |-> FALSE, v |-> 0]
Text == [nan |-> FALSE, text |-> TRUE, v |-> 0]

\* raw_ph_value <= 0 raises TypeError for a str
FixSoilPhRaises(raw) == raw.text

DefaultPh == 7000

\* A plausible slip: "likely multiplied" tested with >= 14 instead of > 14.
FixSoilPhInclusive14(raw) ==
    IF raw.nan \/ raw.v <= 0 THEN DefaultPh
    ELSE IF raw.v >= 14000
         THEN (IF raw.v > 100000 THEN raw.v \div 100 ELSE raw.v \div 10)
         ELSE raw.v
\* A plausible slip: "likely pH * 100" tested with >= 100 instead of > 100.
FixSoilPhInclusive100(raw) ==
    IF raw.nan \/ raw.v <= 0 THEN DefaultPh
    ELSE IF raw.v > 14000
         THEN (IF raw.v >= 100000 THEN raw.v \div 100 ELSE raw.v \div 10)
         ELSE raw.v

_fix_soil_ph_value(raw) ==
    IF raw.nan \/ raw.v <= 0 THEN DefaultPh
    ELSE IF raw.v > 14000
         THEN (IF raw.v > 100000 THEN raw.v \div 100 ELSE raw.v \div 10)
         ELSE raw.v

_classify_ph_status(ph) ==
    IF ph < 5500 THEN "Very Acidic"
    ELSE IF ph < 6000 THEN "Acidic"
    ELSE IF ph < 6800 THEN "Slightly Acidic"
    ELSE IF ph <= 7200 THEN "Neutral"
    ELSE IF ph <= 7800 THEN "Slightly Alkaline"
    ELSE IF ph <= 8500 THEN "Alkaline"
    ELSE "Very Alkaline"

---------------------------------------------------------------------------
(* Strings whose content matters (texture, soil_preference) are sequences   *)
(* of characters, so that Python's `in` is a real substring search.         *)

Loam == <<"L", "o", "a", "m">>
ClayLoam == <<"C", "l", "a", "y", " ", "L", "o", "a", "m">>
Clay == <<"C", "l", "a", "y">>
Alluvial == <<"A", "l", "l", "u", "v", "i", "a", "l">>

\* s in t, for Python strings
IsSubstring(s, t) ==
    \E i \in 0..(Len(t) - Len(s)) : SubSeq(t, i + 1, i + Len(s)) = s

---------------------------------------------------------------------------
(* Exact fractions.                                                         *)

RECURSIVE Gcd(_, _)
Gcd(a, b) == IF b = 0 THEN a ELSE Gcd(b, a % b)

Abs(x) == IF x < 0 THEN -x ELSE x

\* n / d with d > 0, in lowest terms
Frac(n, d) ==
    LET g == Gcd(Abs(n), d) IN [n |-> n \div g, d |-> d \div g]

One == [n |-> 1, d |-> 1]
Zero == [n |-> 0, d |-> 1]

FracGeq(a, b) == a.n * b.d >= b.n * a.d
FracGt(a, b) == a.n * b.d > b.n * a.d
FracEq(a, b) == a.n * b.d = b.n * a.d

\* hundredths as a fraction: Pct(70) is 0.70
Pct(h) == Frac(h, 100)

\* round(x, k) of a fraction x >= 0, in units of 10^-k, by long division:
\* the integer part, then k decimal digits, then the half of the next one.
\* (Python rounds the float's decimal expansion; a decimal tie is rounded up
\* here.)
RECURSIVE RoundDigits(_, _, _, _)
RoundDigits(acc, r, d, k) ==
    IF k = 0 THEN (IF 2 * r >= d THEN acc + 1 ELSE acc)
    ELSE RoundDigits(10 * acc + ((10 * r) \div d), (10 * r) % d, d, k - 1)

Round(x, k) == RoundDigits(x.n \div x.d, x.n % x.d, x.d, k)

---------------------------------------------------------------------------
(* The rule weights: _initialize_enhanced_rules, in hundredths.             *)

recommendation_rules ==
    [zone_compatibility    |-> [exact_match |-> 50, adjacent_zone |-> 20,
                                climate_similarity |-> 5],
     climate_compatibility |-> [rainfall_match |-> 25, temperature_match |-> 20,
                                humidity_tolerance |-> 10],
     soil_compatibility    |-> [ph_match |-> 25, texture_match |-> 15,
                                nutrient_match |-> 10],
     vegetation_health     |-> [ndvi_bonus |-> 5, stress_penalty |-> 10],
     economic_factors      |-> [market_value |-> 5, carbon_potential |-> 10]]

---------------------------------------------------------------------------
(* calculate_enhanced_suitability_score.                                    *)
(*                                                                          *)
(* A variety is a record; `complete` says whether it has the scoring keys   *)
(* (the fallback database's entries have only id, name, category, zones and *)
(* carbon_potential, and the first missing key raises KeyError).            *)
(* A profile's `np` says whether its numbers are numpy floats, as the       *)
(* profiles built by create_farm_profile_from_data are (division by zero    *)
(* gives inf), or plain Python floats (division by zero raises).            *)

Raised == [raised |-> TRUE, n |-> 0, d |-> 1]
Value(n, d) == [raised |-> FALSE, n |-> n, d |-> d]

\* One range term: 1.0 in range, else max(0, 1.0 - distance * k) with
\* distance = (bound - value) / bound below the range and
\* (value - bound) / bound otherwise; k = 2 for pH, 1 for rainfall and
\* temperature.  a > 0 is the amount outside, b the bound divided by.
RangeMatch(range, v, k, isnp) ==
    IF range[1] <= v /\ v <= range[2] THEN Value(1, 1)
    ELSE LET below == v < range[1]
             b == IF below THEN range[1] ELSE range[2]
             a == IF below THEN range[1] - v ELSE v - range[2]
         IN  IF b = 0
             THEN (IF isnp THEN Value(0, 1)   \* 1.0 - inf, max(0, -inf)
                   ELSE Raised)               \* ZeroDivisionError
             ELSE IF b > 0
                  THEN LET f == Frac(Max(0, b - k * a), b) IN Value(f.n, f.d)
                  ELSE LET f == Frac(k * a - b, -b) IN Value(f.n, f.d)

\* zone_score
ZoneScoreAdjacent(p, v) ==
    IF p.detected_zone \in v.zones
    THEN recommendation_rules.zone_compatibility.adjacent_zone
    ELSE recommendation_rules.zone_compatibility.climate_similarity

ZoneScore(p, v) ==
    IF p.detected_zone \in v.zones
    THEN recommendation_rules.zone_compatibility.exact_match
    ELSE recommendation_rules.zone_compatibility.climate_similarity
\* A plausible slip: the stress penalty taken once for heat and once more
\* for drought.
FlatTermsStressTwice(p, v) ==
      (IF IsSubstring(v.soil_preference, p.texture)
       THEN recommendation_rules.soil_compatibility.texture_match ELSE 0)
    + (IF p.nutrient_status \in {"Good", "Excellent"} /\ v.market_value = "Premium"
       THEN recommendation_rules.soil_compatibility.nutrient_match ELSE 0)
    + (IF p.vegetation_health \in {"Good", "Excellent"}
       THEN recommendation_rules.vegetation_health.ndvi_bonus ELSE 0)
    - (IF p.heat_stress_days > 60
       THEN recommendation_rules.vegetation_health.stress_penalty ELSE 0)
    - (IF p.drought_stress_days > 180
       THEN recommendation_rules.vegetation_health.stress_penalty ELSE 0)
    + (IF v.market_value = "Premium"
       THEN recommendation_rules.economic_factors.market_value ELSE 0)
    + (IF v.carbon_potential > 50
       THEN recommendation_rules.economic_factors.carbon_potential ELSE 0)

\* the additive terms that are whole hundredths: texture and nutrient bonus,
\* vegetation bonus, stress penalty, market and carbon bonus
FlatTerms(p, v) ==
      (IF IsSubstring(v.soil_preference, p.texture)
       THEN recommendation_rules.soil_compatibility.texture_match ELSE 0)
    + (IF p.nutrient_status \in {"Good", "Excellent"} /\ v.market_value = "Premium"
       THEN recommendation_rules.soil_compatibility.nutrient_match ELSE 0)
    + (IF p.vegetation_health \in {"Good", "Excellent"}
       THEN recommendation_rules.vegetation_health.ndvi_bonus ELSE 0)
    - (IF p.heat_stress_days > 60 \/ p.drought_stress_days > 180
       THEN recommendation_rules.vegetation_health.stress_penalty ELSE 0)
    + (IF v.market_value = "Premium"
       THEN recommendation_rules.economic_factors.market_value ELSE 0)
    + (IF v.carbon_potential > 50
       THEN recommendation_rules.economic_factors.carbon_potential ELSE 0)

\* total_score before the clamp, as a fraction (raised: an exception left
\* the try block)
TotalScore(p, v) ==
    IF ~v.complete THEN Raised       \* KeyError: 'rainfall_range'
    ELSE LET r == RangeMatch(v.rainfall_range, p.total_rainfall, 1, p.np)
             t == RangeMatch(v.temp_range, p.avg_temp, 1, p.np)
             h == RangeMatch(v.ph_tolerance, p.soil_ph_avg, 2, p.np)
             w == recommendation_rules
         IN  IF r.raised \/ t.raised \/ h.raised THEN Raised
             ELSE LET den == 100 * r.d * t.d * h.d
                      num == (ZoneScore(p, v) + FlatTerms(p, v)) * r.d * t.d * h.d
                             + w.climate_compatibility.rainfall_match * r.n * t.d * h.d
                             + w.climate_compatibility.temperature_match * t.n * r.d * h.d
                             + w.soil_compatibility.ph_match * h.n * r.d * t.d
                      f == Frac(num, den)
                  IN  Value(f.n, f.d)

\* A plausible slip: the final clamp left out.
ClampNone(x) == x

\* max(0.0, min(1.0, total_score))
Clamp01(x) ==
    IF x.n < 0 THEN Zero ELSE IF x.n > x.d THEN One ELSE x

calculate_enhanced_suitability_score(p, v) ==
    LET t == TotalScore(p, v)
    IN  IF t.raised THEN Zero            \* except Exception: return 0.0
        ELSE Clamp01([n |-> t.n, d |-> t.d])

\* The v1 engine's scorer: the same statements without the try/except, so
\* an exception leaves the function.
v1_calculate_enhanced_suitability_score(p, v) ==
    LET t == TotalScore(p, v)
    IN  IF t.raised THEN Raised
        ELSE LET c == Clamp01([n |-> t.n, d |-> t.d]) IN Value(c.n, c.d)

---------------------------------------------------------------------------
(* generate_recommendations and _calculate_realistic_carbon_potential.      *)
(* The database is [rice_varieties, agroforestry_species, crop_varieties],  *)
(* each a sequence in catalog order.  Descriptive pass-through fields of an *)
(* entry (name, characteristics, ...) are left out.                         *)

get_all_varieties(db) ==
    db.rice_varieties \o db.agroforestry_species \o db.crop_varieties

\* A plausible slip: a softer threshold.
IsSuitableSoft(s) == FracGeq(s, Pct(60))

\* suitability_score >= 0.70
IsSuitable(s) == FracGeq(s, Pct(70))

\* A plausible slip: another derating factor.
RecommendationDerated90(v, category_name, s) ==
    [variety_id       |-> v.id,
     category         |-> category_name,
     suitability_score |-> Round(s, 3),
     carbon_potential |-> v.carbon_potential,
     market_value     |-> v.market_value,
     confidence_level |-> Round(Frac(90 * s.n, 100 * s.d), 4),
     zones            |-> v.zones]

\* The dict appended for a suitable variety.  suitability_score is
\* round(score, 3) in thousandths, confidence_level is round(score * 0.85, 4)
\* in ten-thousandths.
Recommendation(v, category_name, s) ==
    [variety_id       |-> v.id,
     category         |-> category_name,
     suitability_score |-> Round(s, 3),
     carbon_potential |-> v.carbon_potential,
     market_value     |-> v.market_value,
     confidence_level |-> Round(Frac(85 * s.n, 100 * s.d), 4),
     zones            |-> v.zones]

\* one pass of the loop body: the entry of a suitable variety, or nothing
CategoryEntry(v, category_name, s) ==
    IF IsSuitable(s) THEN <<Recommendation(v, category_name, s)>> ELSE << >>

\* the loop over one category's varieties: the entries of the suitable ones,
\* in catalog order
RECURSIVE CategoryRecommendations(_, _, _, _)
CategoryRecommendations(p, varieties, category_name, i) ==
    IF i > Len(varieties) THEN << >>
    ELSE CategoryEntry(varieties[i], category_name,
                       calculate_enhanced_suitability_score(p, varieties[i]))
         \o CategoryRecommendations(p, varieties, category_name, i + 1)

\* A plausible slip: an entry placed before the entries of equal key, which
\* turns the catalog order of equal scores round.
RECURSIVE InsertBeforeEqual(_, _)
InsertBeforeEqual(sorted, e) ==
    IF sorted = << >> THEN <<e>>
    ELSE IF Head(sorted).suitability_score > e.suitability_score
         THEN <<Head(sorted)>> \o InsertBeforeEqual(Tail(sorted), e)
         ELSE <<e>> \o sorted

\* list.sort(key = suitability_score, reverse = True): stable, so that equal
\* keys keep their order.  Insertion after every entry whose key is >=.
RECURSIVE InsertByScore(_, _)
InsertByScore(sorted, e) ==
    IF sorted = << >> THEN <<e>>
    ELSE IF Head(sorted).suitability_score >= e.suitability_score
         THEN <<Head(sorted)>> \o InsertByScore(Tail(sorted), e)
         ELSE <<e>> \o sorted

RECURSIVE SortByScoreFrom(_, _, _)
SortByScoreFrom(recs, i, sorted) ==
    IF i > Len(recs) THEN sorted
    ELSE SortByScoreFrom(recs, i + 1, InsertByScore(sorted, recs[i]))

SortByScore(recs) == SortByScoreFrom(recs, 1, << >>)

\* A plausible slip: one entry too many kept.
TopNOffByOne(recs, n) == SubSeq(recs, 1, Min(n + 1, Len(recs)))

\* recs[:top_n], top_n >= 0
TopN(recs, n) == SubSeq(recs, 1, Min(n, Len(recs)))

\* category_recommendations.sort(...); category_recommendations[:top_n]
CategoryTop(category_recommendations, n) ==
    TopN(SortByScore(category_recommendations), n)

\* A plausible slip: the secondary crop weighted like the primary one.
CarbonBlendEqualCrops(recs) ==
      (IF recs.rice # << >> THEN 4 * recs.rice[1].carbon_potential ELSE 0)
    + (IF recs.crops # << >> THEN 3 * recs.crops[1].carbon_potential ELSE 0)
    + (IF Len(recs.crops) > 1 THEN 3 * recs.crops[2].carbon_potential ELSE 0)
    + (IF recs.agroforestry # << >> THEN 1 * recs.agroforestry[1].carbon_potential ELSE 0)

\* A plausible slip: a category without entries counted with a default
\* carbon potential.
CarbonBlendDefaultRice(recs) ==
      (IF recs.rice # << >> THEN 4 * recs.rice[1].carbon_potential ELSE 4 * 25)
    + (IF recs.crops # << >> THEN 3 * recs.crops[1].carbon_potential ELSE 0)
    + (IF Len(recs.crops) > 1 THEN 2 * recs.crops[2].carbon_potential ELSE 0)
    + (IF recs.agroforestry # << >> THEN 1 * recs.agroforestry[1].carbon_potential ELSE 0)

\* realistic_carbon in hundredths: 0.4, 0.3, 0.2 and 0.1 of a carbon
\* potential given in tenths
CarbonBlend(recs) ==
      (IF recs.rice # << >> THEN 4 * recs.rice[1].carbon_potential ELSE 0)
    + (IF recs.crops # << >> THEN 3 * recs.crops[1].carbon_potential ELSE 0)
    + (IF Len(recs.crops) > 1 THEN 2 * recs.crops[2].carbon_potential ELSE 0)
    + (IF recs.agroforestry # << >> THEN 1 * recs.agroforestry[1].carbon_potential ELSE 0)

\* (realistic_carbon, estimated_credits, estimated_revenue) as fractions
_calculate_realistic_carbon_potential(recs) ==
    LET rc == CarbonBlend(recs)
    IN  [realistic_carbon  |-> Frac(rc, 100),
         estimated_credits |-> Frac(rc * 85, 100 * 100),
         estimated_revenue |-> Frac(rc * 85 * 25, 100 * 100)]

\* round(x, k) of a fraction of either sign
RoundSigned(x, k) ==
    IF x.n >= 0 THEN Round(x, k) ELSE -Round([n |-> -x.n, d |-> x.d], k)

\* the dict returned, from the locals of generate_recommendations
ResultDict(db, zm, p, recommendations, suitable, c) ==
    IF p.detected_zone \notin ZoneIds(zm)
    THEN [raised |-> TRUE]               \* KeyError on zone_mappings[...]
    ELSE [raised |-> FALSE,
          farm_profile |-> p,
          detected_zone |-> p.detected_zone,
          zone_characteristics |->
              zm[CHOOSE i \in 1..Len(zm) : zm[i].id = p.detected_zone].climate_type,
          recommendations |-> recommendations,
          total_varieties_evaluated |-> Len(get_all_varieties(db)),
          suitable_varieties_found |-> suitable,
          realistic_carbon_potential |-> RoundSigned(c.realistic_carbon, 2),
          estimated_annual_credits |-> RoundSigned(c.estimated_credits, 2),
          estimated_revenue |-> RoundSigned(c.estimated_revenue, 2)]

\* from the sorted and cut lists on
WithRecommendations(db, zm, p, recommendations, suitable) ==
    ResultDict(db, zm, p, recommendations, suitable,
               _calculate_realistic_carbon_potential(recommendations))

\* from the three category loops on; rice, agro and crops are the suitable
\* entries of each category in catalog order
WithCategories(db, zm, p, n, rice, agro, crops) ==
    WithRecommendations(db, zm, p,
                        [rice         |-> CategoryTop(rice, n),
                         agroforestry |-> CategoryTop(agro, n),
                         crops        |-> CategoryTop(crops, n)],
                        Len(rice) + Len(agro) + Len(crops))

generate_recommendations(db, zm, p, n) ==
    WithCategories(db, zm, p, n,
                   CategoryRecommendations(p, db.rice_varieties, "rice", 1),
                   CategoryRecommendations(p, db.agroforestry_species, "agroforestry", 1),
                   CategoryRecommendations(p, db.crop_varieties, "crops", 1))

---------------------------------------------------------------------------
(* The engine after __init__ when the CSV files are missing:               *)
(* _initialize_fallback_database.                                           *)

Fallback(id, category, zones, carbon_potential) ==
    [id |-> id, category |-> category, zones |-> zones,
     carbon_potential |-> carbon_potential, complete |-> FALSE,
     market_value |-> "", ph_tolerance |-> <<0, 0>>, rainfall_range |-> <<0, 0>>,
     temp_range |-> <<0, 0>>, soil_preference |-> << >>]

FallbackDatabase ==
    [rice_varieties       |-> <<Fallback("RICE_001", "rice", {"Zone_10_Southern_Plateau"}, 25)>>,
     agroforestry_species |-> <<Fallback("AGRO_001", "agroforestry", {"Zone_10_Southern_Plateau"}, 50)>>,
     crop_varieties       |-> <<Fallback("CROP_001", "crops", {"Zone_10_Southern_Plateau"}, 15)>>]

\* A variety with every key, as the CSV rows are turned into.
Variety(id, category, zones, carbon_potential, market_value, ph_tolerance, rainfall_range, temp_range, soil_preference) ==
    [id |-> id, category |-> category, zones |-> zones,
     carbon_potential |-> carbon_potential, complete |-> TRUE,
     market_value |-> market_value, ph_tolerance |-> ph_tolerance,
     rainfall_range |-> rainfall_range, temp_range |-> temp_range,
     soil_preference |-> soil_preference]

\* The profile fields the scorer, the generator and the file name read.
\* detected_zone is what create_farm_profile_from_data stores: the zone
\* detected for (lat, lon).
Profile(farm_id, la, lo, rain, temp, ph, texture, nutrient, veg, heat, drought, isnp) ==
    [farm_id |-> farm_id, lat |-> la, lon |-> lo,
     total_rainfall |-> rain, avg_temp |-> temp, soil_ph_avg |-> ph,
     texture |-> texture, nutrient_status |-> nutrient, vegetation_health |-> veg,
     heat_stress_days |-> heat, drought_stress_days |-> drought,
     detected_zone |-> detect_zone_from_coordinates(ZoneMappings, la, lo),
     np |-> isnp]

---------------------------------------------------------------------------
(* What the variables hold when a specification does not use them.          *)

IdleDetect == lat = 0 /\ lon = 0 /\ detected = "" /\ detected_v1 = ""
IdlePh == raw_ph = NaN /\ fixed_ph = -1
IdleScore == variety = None /\ score = None /\ score_v1 = None
IdleGen == top_n = 0 /\ result = None /\ carbon = None
IdleBatch ==
    /\ weather_df = << >> /\ satellite_df = << >> /\ soil_df = << >>
    /\ farms_df = << >> /\ farm_ids = << >>
    /\ idx = 0 /\ stage = "" /\ cur_profile = None /\ cur_recs = None
    /\ cur_file = "" /\ all_results = << >> /\ files = {} /\ log = << >>
    /\ summary = None

batch_vars == <<weather_df, satellite_df, soil_df, farms_df, farm_ids, idx, stage,
                cur_profile, cur_recs, cur_file, all_results, files, log, summary>>

---------------------------------------------------------------------------
(* SpecDetect: detect_zone_from_coordinates on every point of a grid        *)
(* around the fifteen boxes.                                                *)

GridLatMin == 6
GridLatMax == 80
GridLonMin == 130
GridLonMax == 202

InitDetect ==
    /\ zone_mappings = ZoneMappings /\ database = FallbackDatabase
    /\ lat \in GridLatMin..GridLatMax /\ lon \in GridLonMin..GridLonMax
    /\ detected = "" /\ detected_v1 = ""
    /\ farm_profile = None
    /\ IdlePh /\ IdleScore /\ IdleGen /\ IdleBatch
    /\ pc = "ready"

DetectZone ==
    /\ pc = "ready"
    /\ detected' = detect_zone_from_coordinates(zone_mappings, lat, lon)
    /\ pc' = "detected"
    /\ UNCHANGED <<zone_mappings, database, lat, lon, detected_v1, raw_ph, fixed_ph,
                   farm_profile, variety, score, score_v1, top_n, result, carbon, batch_vars>>

NextDetect == DetectZone

SpecDetect == InitDetect /\ [][NextDetect]_vars

---------------------------------------------------------------------------
(* SpecCatalog: detect_zone_from_coordinates on an engine whose zone        *)
(* catalog (the zone_mappings attribute) is the fifteen zones or empty.     *)

InitCatalog ==
    /\ zone_mappings \in {<< >>, ZoneMappings} /\ database = FallbackDatabase
    /\ lat \in GridLatMin..GridLatMax /\ lon \in GridLonMin..GridLonMax
    /\ detected = "" /\ detected_v1 = ""
    /\ farm_profile = None
    /\ IdlePh /\ IdleScore /\ IdleGen /\ IdleBatch
    /\ pc = "ready"

SpecCatalog == InitCatalog /\ [][NextDetect]_vars

---------------------------------------------------------------------------
(* SpecPh: _fix_soil_ph_value on raw values from -NegRawTenths / 10 to      *)
(* MaxRawTenths / 10 in steps of 0.1, and on NaN.                           *)

NegRawTenths == 20
MaxRawTenths == 15000

InitPh ==
    /\ zone_mappings = ZoneMappings /\ database = FallbackDatabase
    /\ raw_ph \in {Num(100 * k) : k \in (-NegRawTenths)..MaxRawTenths} \cup {NaN}
    /\ fixed_ph = -1
    /\ farm_profile = None
    /\ IdleDetect /\ IdleScore /\ IdleGen /\ IdleBatch
    /\ pc = "ready"

FixSoilPh ==
    /\ pc = "ready"
    /\ fixed_ph' = _fix_soil_ph_value(raw_ph)
    /\ pc' = "fixed"
    /\ UNCHANGED <<zone_mappings, database, lat, lon, detected, detected_v1, raw_ph,
                   farm_profile, variety, score, score_v1, top_n, result, carbon, batch_vars>>

NextPh == FixSoilPh

SpecPh == InitPh /\ [][NextPh]_vars

---------------------------------------------------------------------------
(* SpecScore: calculate_enhanced_suitability_score on a profile and a       *)
(* variety.  The profiles sit at the centres of Zone_10 (16.0, 77.0) and    *)
(* Zone_12 (12.5, 74.5); the values include ones below, inside and above    *)
(* each range, and the ranges include zero and negative bounds and an       *)
(* inverted range.                                                          *)

ScorePoints == {<<32, 154>>, <<25, 149>>}
\* sc: soil texture, nutrient status, vegetation health; st: days of heat
\* stress, days of drought stress
ScoreProfiles ==
    {Profile("FARM_001", pt[1], pt[2], rain, temp, ph, sc[1], sc[2], sc[3],
             st[1], st[2], isnp) :
        pt \in ScorePoints, rain \in {0, 9, 30}, temp \in {-10, 27, 45},
        ph \in {4000, 6900, 9000},
        sc \in {<<Loam, "Moderate", "Poor">>, <<ClayLoam, "Good", "Good">>,
                <<Loam, "Good", "Poor">>, <<ClayLoam, "Moderate", "Excellent">>},
        st \in {<<10, 100>>, <<61, 100>>, <<10, 181>>, <<61, 181>>},
        isnp \in BOOLEAN}

\* ec: market value, carbon potential, soil preference
ScoreVarieties ==
    {Variety("CROP_001", "crops", zs, ec[2], ec[1], phr, rr, tr, ec[3]) :
        zs \in {{"Zone_10_Southern_Plateau"},
                {"Zone_11_East_Coast", "Zone_12_West_Coast"}},
        ec \in {<<"Premium", 60, Loam>>, <<"High", 25, Alluvial>>,
                <<"Premium", 50, Clay>>},
        phr \in {<<6000, 7500>>, <<0, 5500>>},
        rr \in {<<6, 14>>, <<0, 5>>, <<14, 6>>},
        tr \in {<<20, 35>>, <<-5, 0>>}}
    \cup {FallbackDatabase.crop_varieties[1]}

InitScore ==
    /\ zone_mappings = ZoneMappings /\ database = FallbackDatabase
    /\ farm_profile \in ScoreProfiles
    /\ variety \in ScoreVarieties /\ score = None /\ score_v1 = None
    /\ IdleDetect /\ IdlePh /\ IdleGen /\ IdleBatch
    /\ pc = "ready"

CalculateScore ==
    /\ pc = "ready"
    /\ score' = calculate_enhanced_suitability_score(farm_profile, variety)
    /\ pc' = "scored"
    /\ UNCHANGED <<zone_mappings, database, lat, lon, detected, detected_v1, raw_ph,
                   fixed_ph,
                   farm_profile, variety, score_v1, top_n, result, carbon, batch_vars>>

\* the same call on the v1 engine
CalculateScoreV1 ==
    /\ pc = "ready"
    /\ score_v1' = v1_calculate_enhanced_suitability_score(farm_profile, variety)
    /\ pc' = "scored_v1"
    /\ UNCHANGED <<zone_mappings, database, lat, lon, detected, detected_v1, raw_ph,
                   fixed_ph,
                   farm_profile, variety, score, top_n, result, carbon, batch_vars>>

NextScore ==
    \/ CalculateScore
    \/ CalculateScoreV1

SpecScore == InitScore /\ [][NextScore]_vars

---------------------------------------------------------------------------
(* SpecGen: generate_recommendations, then the carbon blend on the lists it *)
(* returned, for databases built from a pool of varieties.                  *)

MaxCrops == 3
MaxRice == 1
MaxAgro == 1
MaxTopN == 2
DefaultTopN == 5

Z10 == "Zone_10_Southern_Plateau"
Z11 == "Zone_11_East_Coast"
Z12 == "Zone_12_West_Coast"

CropPool ==
    { Variety("CROP_001", "crops", {Z10}, 60, "Premium", <<6000, 7500>>, <<6, 14>>, <<20, 35>>, Loam),
      Variety("CROP_002", "crops", {Z11}, 25, "High", <<6000, 7500>>, <<6, 14>>, <<20, 35>>, Alluvial),
      Variety("CROP_003", "crops", {Z12}, 80, "Premium", <<5500, 6500>>, <<20, 40>>, <<22, 32>>, Clay),
      Variety("CROP_004", "crops", {Z10}, 40, "High", <<6500, 7500>>, <<10, 15>>, <<20, 35>>, Loam) }

RicePool ==
    { Variety("RICE_001", "rice", {Z12}, 25, "High", <<6000, 7500>>, <<6, 14>>, <<20, 35>>, Alluvial),
      Variety("RICE_002", "rice", {Z10}, 60, "Premium", <<6000, 7500>>, <<6, 14>>, <<20, 35>>, Clay),
      FallbackDatabase.rice_varieties[1] }

AgroPool ==
    { Variety("AGRO_001", "agroforestry", {Z10}, 80, "Good", <<6000, 8000>>, <<6, 14>>, <<20, 35>>, Clay),
      FallbackDatabase.agroforestry_species[1] }

\* the sequences of at most n members of pool
ListsOf(pool, n) == UNION {[1..k -> pool] : k \in 0..n}

\* the variety of a pool with that id and every key
ById(pool, id) == CHOOSE v \in pool : v.id = id /\ v.complete

Distinct(l) == \A i, j \in 1..Len(l) : i # j => l[i] # l[j]

Databases ==
    {[rice_varieties |-> r, agroforestry_species |-> a, crop_varieties |-> c] :
        r \in {l \in ListsOf(RicePool, MaxRice) : Distinct(l)},
        a \in {l \in ListsOf(AgroPool, MaxAgro) : Distinct(l)},
        c \in {l \in ListsOf(CropPool, MaxCrops) : Distinct(l)}}

GenProfiles ==
    {Profile("FARM_001", pt[1], pt[2], rain, 27, ph, sc[1], sc[2], sc[3],
             st[1], st[2], TRUE) :
        pt \in ScorePoints, rain \in {9}, ph \in {6900, 7800},
        sc \in {<<Loam, "Moderate", "Poor">>, <<ClayLoam, "Good", "Good">>},
        st \in {<<10, 100>>, <<61, 100>>}}

InitGen ==
    /\ zone_mappings = ZoneMappings
    /\ database \in Databases
    /\ farm_profile \in GenProfiles
    /\ top_n = 0 /\ result = None /\ carbon = None
    /\ IdleDetect /\ IdlePh /\ IdleScore /\ IdleBatch
    /\ pc = "ready"

GenerateRecommendations ==
    /\ pc = "ready"
    /\ \E n \in (0..MaxTopN) \cup {DefaultTopN} :
        /\ top_n' = n
        /\ result' = generate_recommendations(database, zone_mappings, farm_profile, n)
    /\ pc' = "generated"
    /\ UNCHANGED <<zone_mappings, database, lat, lon, detected, detected_v1, raw_ph,
                   fixed_ph,
                   farm_profile, variety, score, score_v1, carbon, batch_vars>>

CalculateCarbon ==
    /\ pc = "generated" /\ ~result.raised
    /\ carbon' = _calculate_realistic_carbon_potential(result.recommendations)
    /\ pc' = "blended"
    /\ UNCHANGED <<zone_mappings, database, lat, lon, detected, detected_v1, raw_ph,
                   fixed_ph,
                   farm_profile, variety, score, score_v1, top_n, result, batch_vars>>

NextGen == GenerateRecommendations \/ CalculateCarbon

SpecGen == InitGen /\ [][NextGen]_vars

---------------------------------------------------------------------------
(* SpecRank: generate_recommendations on catalogs that put the ordering and *)
(* the range arithmetic to work: two crops whose scores differ by less than *)
(* the three decimals reported, two crops of the farm's zone that differ    *)
(* in their bonuses only, and a crop whose rainfall range has its bounds    *)
(* the wrong way round.  The catalog is the engine's `database`             *)
(* attribute; the scorer takes whatever variety dict the catalog holds.     *)

\* a crop of the east coast; CROP_102 below differs from it in its pH
\* tolerance only
NeutralCrop ==
    Variety("CROP_101", "crops", {Z11}, 25, "High", <<6000, 7500>>, <<6, 14>>, <<20, 35>>, Alluvial)
\* a crop of the southern plateau with rainfall_range [1400, 600]
InvertedCrop ==
    Variety("CROP_103", "crops", {Z10}, 60, "Premium", <<6000, 7500>>, <<14, 6>>, <<20, 35>>, Loam)

RankDatabases ==
    {[rice_varieties |-> <<ById(RicePool, "RICE_002")>>,
      agroforestry_species |-> <<ById(AgroPool, "AGRO_001")>>,
      crop_varieties |-> c] :
        c \in {l \in ListsOf({NeutralCrop,
                              Variety("CROP_102", "crops", {Z11}, 25, "High",
                                      <<7500, 8500>>, <<6, 14>>, <<20, 35>>, Alluvial),
                              InvertedCrop,
                              Variety("CROP_104", "crops", {Z10}, 25, "High",
                                      <<6000, 7500>>, <<6, 14>>, <<20, 35>>, Alluvial),
                              ById(CropPool, "CROP_001"), ById(CropPool, "CROP_004")},
                             MaxCrops) : Distinct(l)}}

\* farms at the centre of Zone_10; soil pH 6.9 or 7.501; without stress or
\* with heat and drought stress
RankProfiles ==
    {Profile("FARM_001", 32, 154, 9, 27, ph, sc[1], sc[2], sc[3], st[1], st[2], TRUE) :
        ph \in {6900, 7501},
        sc \in {<<Loam, "Moderate", "Poor">>, <<ClayLoam, "Good", "Good">>},
        st \in {<<10, 100>>, <<61, 181>>}}

InitRank ==
    /\ zone_mappings = ZoneMappings
    /\ database \in RankDatabases
    /\ farm_profile \in RankProfiles
    /\ top_n = 0 /\ result = None /\ carbon = None
    /\ IdleDetect /\ IdlePh /\ IdleScore /\ IdleBatch
    /\ pc = "ready"

SpecRank == InitRank /\ [][NextGen]_vars

---------------------------------------------------------------------------
(* SpecLoad: the catalog an engine holds after initialisation.  The v2      *)
(* engine reads three CSV files and takes every range from tables keyed by  *)
(* the row's zone and soil words, falling back to three synthetic entries   *)
(* when a file is missing; the v1 engine builds 147 entries in code.        *)
(* Here a range is kept in the units of the source tables: rainfall in mm,  *)
(* temperature in degrees, pH in thousandths; an id is <<prefix, number>>.  *)

CatalogVariety(id, category, zones, carbon_potential, market_value, ph_tolerance, rainfall_range, temp_range) ==
    [id |-> id, category |-> category, zones |-> zones,
     carbon_potential |-> carbon_potential, complete |-> TRUE,
     market_value |-> market_value, ph_tolerance |-> ph_tolerance,
     rainfall_range |-> rainfall_range, temp_range |-> temp_range]

\* zone_mapping.get(row['zone'], 'Zone_10_Southern_Plateau')
zone_mapping(name) ==
    CASE name = "Eastern_Himalayan"       -> "Zone_2_Eastern_Himalayan"
      [] name = "Lower_Gangetic_Plains"   -> "Zone_3_Lower_Gangetic"
      [] name = "Middle_Gangetic_Plains"  -> "Zone_4_Middle_Gangetic"
      [] name = "Upper_Gangetic_Plains"   -> "Zone_5_Upper_Gangetic"
      [] name = "Trans_Gangetic_Plains"   -> "Zone_6_Trans_Gangetic"
      [] name = "Eastern_Plateau_Hills"   -> "Zone_7_Eastern_Plateau"
      [] name = "Central_Plateau_Hills"   -> "Zone_8_Central_Plateau"
      [] name = "Western_Plateau_Hills"   -> "Zone_9_Western_Plateau"
      [] name = "Southern_Plateau_Hills"  -> "Zone_10_Southern_Plateau"
      [] name = "East_Coast_Plains_Hills" -> "Zone_11_East_Coast"
      [] name = "West_Coast_Plains_Ghats" -> "Zone_12_West_Coast"
      [] name = "Gujarat_Plains_Hills"    -> "Zone_13_Gujarat"
      [] name = "Western_Dry_Region"      -> "Zone_14_Western_Dry"
      [] name = "Islands_Region"          -> "Zone_15_Island"
      [] name = "Western_Himalayan"       -> "Zone_1_Western_Himalayan"
      [] OTHER                            -> "Zone_10_Southern_Plateau"

\* soil_words: the words of the row's soil_preference text
parse_ph_tolerance(soil_words) ==
    IF "acidic" \in soil_words THEN <<5500, 6500>>
    ELSE IF "alkaline" \in soil_words \/ "saline" \in soil_words THEN <<7500, 8500>>
    ELSE IF "neutral" \in soil_words THEN <<6500, 7500>>
    ELSE <<6000, 7500>>

parse_temp_range_from_zone(zone) ==
    CASE zone = "Zone_1_Western_Himalayan" -> <<5, 25>>
      [] zone = "Zone_2_Eastern_Himalayan" -> <<8, 28>>
      [] zone = "Zone_3_Lower_Gangetic"    -> <<15, 38>>
      [] zone = "Zone_4_Middle_Gangetic"   -> <<12, 40>>
      [] zone = "Zone_5_Upper_Gangetic"    -> <<8, 42>>
      [] zone = "Zone_6_Trans_Gangetic"    -> <<2, 45>>
      [] zone = "Zone_7_Eastern_Plateau"   -> <<15, 40>>
      [] zone = "Zone_8_Central_Plateau"   -> <<12, 42>>
      [] zone = "Zone_9_Western_Plateau"   -> <<15, 40>>
      [] zone = "Zone_10_Southern_Plateau" -> <<20, 35>>
      [] zone = "Zone_11_East_Coast"       -> <<22, 38>>
      [] zone = "Zone_12_West_Coast"       -> <<22, 32>>
      [] zone = "Zone_13_Gujarat"          -> <<15, 42>>
      [] zone = "Zone_14_Western_Dry"      -> <<5, 48>>
      [] zone = "Zone_15_Island"           -> <<24, 32>>
      [] OTHER                             -> <<20, 35>>

parse_rainfall_range_from_zone(zone) ==
    CASE zone = "Zone_1_Western_Himalayan" -> <<1000, 2500>>
      [] zone = "Zone_2_Eastern_Himalayan" -> <<1500, 3000>>
      [] zone = "Zone_3_Lower_Gangetic"    -> <<1200, 1800>>
      [] zone = "Zone_4_Middle_Gangetic"   -> <<1000, 1500>>
      [] zone = "Zone_5_Upper_Gangetic"    -> <<600, 1200>>
      [] zone = "Zone_6_Trans_Gangetic"    -> <<300, 800>>
      [] zone = "Zone_7_Eastern_Plateau"   -> <<1000, 1600>>
      [] zone = "Zone_8_Central_Plateau"   -> <<800, 1400>>
      [] zone = "Zone_9_Western_Plateau"   -> <<500, 1200>>
      [] zone = "Zone_10_Southern_Plateau" -> <<600, 1400>>
      [] zone = "Zone_11_East_Coast"       -> <<1000, 1400>>
      [] zone = "Zone_12_West_Coast"       -> <<2000, 4000>>
      [] zone = "Zone_13_Gujarat"          -> <<400, 1200>>
      [] zone = "Zone_14_Western_Dry"      -> <<100, 500>>
      [] zone = "Zone_15_Island"           -> <<1500, 3500>>
      [] OTHER                             -> <<600, 1200>>

\* the dict built from one CSV row; row_index is the row's index, from 0.
\* market_value of a rice or crop row: Premium when the characteristics hold
\* one of the premium words, else High; of an agroforestry row: Premium,
\* High or Good from its economic_value text
RowVariety(row, category, row_index) ==
    LET mapped_zone == zone_mapping(row.zone)
    IN  CatalogVariety(<<IF category = "rice" THEN "RICE"
                         ELSE IF category = "crops" THEN "CROP" ELSE "AGRO", row_index + 1>>,
                       category, {mapped_zone}, row.carbon_potential,
                       IF row.market = "premium" THEN "Premium"
                       ELSE IF category = "agroforestry" /\ row.market # "high"
                       THEN "Good" ELSE "High",
                       IF category = "agroforestry" THEN <<6000, 8000>>
                       ELSE parse_ph_tolerance(row.soil_words),
                       parse_rainfall_range_from_zone(mapped_zone),
                       parse_temp_range_from_zone(mapped_zone))

\* the loop over one file's rows; a row whose carbon_potential is not a
\* number raises in float() and is left out with a warning
RECURSIVE VarietiesFromRows(_, _, _)
VarietiesFromRows(df, category, i) ==
    IF i > Len(df) THEN << >>
    ELSE (IF df[i].carbon_potential = -1 THEN << >>
          ELSE <<RowVariety(df[i], category, i - 1)>>)
         \o VarietiesFromRows(df, category, i + 1)

\* csv.found = FALSE: read_csv raised FileNotFoundError
_initialize_complete_database(csv) ==
    IF ~csv.found THEN FallbackDatabase
    ELSE [rice_varieties       |-> VarietiesFromRows(csv.rice_df, "rice", 1),
          agroforestry_species |-> VarietiesFromRows(csv.agro_df, "agroforestry", 1),
          crop_varieties       |-> VarietiesFromRows(csv.crops_df, "crops", 1)]

\* the v1 engine: five entries of each category written out, the others
\* generated from their number i; zone_list is the list of the zone ids
V1ZoneList(i) == ZoneMappings[((i - 6) % Len(ZoneMappings)) + 1].id

V1Market(i) == IF i % 3 = 0 THEN "Good" ELSE IF i % 3 = 1 THEN "High" ELSE "Premium"

rice_specific ==
    << CatalogVariety(<<"RICE", 1>>, "rice", {"Zone_1_Western_Himalayan"}, 28, "Premium", <<6000, 7500>>, <<1000, 2000>>, <<15, 30>>),
       CatalogVariety(<<"RICE", 2>>, "rice", {"Zone_3_Lower_Gangetic"}, 32, "High", <<6000, 7500>>, <<1200, 1800>>, <<20, 35>>),
       CatalogVariety(<<"RICE", 3>>, "rice", {"Zone_5_Upper_Gangetic", "Zone_6_Trans_Gangetic"}, 25, "Premium", <<6000, 7500>>, <<500, 1000>>, <<18, 38>>),
       CatalogVariety(<<"RICE", 4>>, "rice", {"Zone_10_Southern_Plateau"}, 30, "High", <<6000, 7500>>, <<800, 1200>>, <<25, 35>>),
       CatalogVariety(<<"RICE", 5>>, "rice", {"Zone_12_West_Coast"}, 33, "High", <<5500, 7000>>, <<2000, 3500>>, <<24, 32>>) >>

agro_specific ==
    << CatalogVariety(<<"AGRO", 1>>, "agroforestry", {"Zone_1_Western_Himalayan"}, 125, "Premium", <<6000, 7500>>, <<1000, 2500>>, <<5, 25>>),
       CatalogVariety(<<"AGRO", 2>>, "agroforestry", {"Zone_9_Western_Plateau"}, 152, "Premium", <<6500, 7500>>, <<800, 1500>>, <<20, 35>>),
       CatalogVariety(<<"AGRO", 3>>, "agroforestry", {"Zone_10_Southern_Plateau"}, 88, "Premium", <<6000, 8000>>, <<600, 1200>>, <<22, 32>>),
       CatalogVariety(<<"AGRO", 4>>, "agroforestry", {"Zone_12_West_Coast"}, 118, "High", <<5500, 7000>>, <<2000, 3500>>, <<24, 32>>),
       CatalogVariety(<<"AGRO", 5>>, "agroforestry", {"Zone_15_Island"}, 65, "High", <<6000, 8000>>, <<1500, 2500>>, <<24, 30>>) >>

crop_specific ==
    << CatalogVariety(<<"CROP", 1>>, "crops", {"Zone_5_Upper_Gangetic"}, 18, "High", <<6000, 7500>>, <<400, 800>>, <<15, 25>>),
       CatalogVariety(<<"CROP", 2>>, "crops", {"Zone_6_Trans_Gangetic"}, 20, "High", <<6500, 8000>>, <<400, 800>>, <<22, 40>>),
       CatalogVariety(<<"CROP", 3>>, "crops", {"Zone_8_Central_Plateau"}, 25, "High", <<6000, 7500>>, <<750, 1200>>, <<22, 32>>),
       CatalogVariety(<<"CROP", 4>>, "crops", {"Zone_10_Southern_Plateau"}, 25, "High", <<6000, 7500>>, <<500, 1000>>, <<25, 35>>),
       CatalogVariety(<<"CROP", 5>>, "crops", {"Zone_12_West_Coast"}, 28, "Premium", <<5500, 6800>>, <<1800, 3000>>, <<22, 30>>) >>

\* A plausible slip: the upper rainfall bound of a generated rice variety
\* starting at 1000 instead of 1200.
V1RiceRainfallLow(i) == <<400 + (i % 12) * 100, 1000 + (i % 8) * 100>>

V1RiceRainfall(i) == <<400 + (i % 12) * 100, 1200 + (i % 8) * 100>>

V1Rice(i) ==
    CatalogVariety(<<"RICE", i>>, "rice", {V1ZoneList(i)}, 20 + (i % 8) * 2, V1Market(i),
                   <<5500 + (i % 3) * 500, 7000 + (i % 3) * 500>>,
                   V1RiceRainfall(i),
                   <<15 + (i % 6) * 2, 30 + (i % 6) * 2>>)

V1Agro(i) ==
    CatalogVariety(<<"AGRO", i>>, "agroforestry", {V1ZoneList(i)}, 40 + (i % 12) * 10, V1Market(i),
                   <<5500 + (i % 4) * 500, 7500 + (i % 4) * 500>>,
                   <<300 + (i % 15) * 100, 1200 + (i % 15) * 100>>,
                   <<15 + (i % 8) * 2, 35 + (i % 8) * 2>>)

V1Crop(i) ==
    CatalogVariety(<<"CROP", i>>, "crops", {V1ZoneList(i)}, 10 + (i % 10) * 2, V1Market(i),
                   <<5500 + (i % 4) * 500, 7500 + (i % 4) * 500>>,
                   <<300 + (i % 12) * 100, 1000 + (i % 12) * 100>>,
                   <<18 + (i % 6) * 2, 32 + (i % 6) * 2>>)

\* range(6, 52), range(6, 54), range(6, 44)
v1_initialize_complete_database ==
    [rice_varieties       |-> rice_specific \o [k \in 1..46 |-> V1Rice(k + 5)],
     agroforestry_species |-> agro_specific \o [k \in 1..48 |-> V1Agro(k + 5)],
     crop_varieties       |-> crop_specific \o [k \in 1..38 |-> V1Crop(k + 5)]]

\* the rows a CSV file can hold: every zone name of the table and one the
\* table does not know, the soil words the pH table asks for, and a row
\* whose carbon_potential cell is not a number (-1 here)
MaxCsvRows == 1

CsvRows ==
    {[zone |-> z, soil_words |-> w, carbon_potential |-> 25, market |-> m] :
        z \in {"Eastern_Himalayan", "Lower_Gangetic_Plains", "Middle_Gangetic_Plains",
               "Upper_Gangetic_Plains", "Trans_Gangetic_Plains", "Eastern_Plateau_Hills",
               "Central_Plateau_Hills", "Western_Plateau_Hills", "Southern_Plateau_Hills",
               "East_Coast_Plains_Hills", "West_Coast_Plains_Ghats",
               "Gujarat_Plains_Hills", "Western_Dry_Region", "Islands_Region",
               "Western_Himalayan", "Unknown"},
        w \in {{}, {"acidic"}, {"alkaline"}, {"saline"}, {"neutral"},
               {"acidic", "neutral"}},
        m \in {"premium", "other"}}
    \cup {[zone |-> "Islands_Region", soil_words |-> {}, carbon_potential |-> -1,
           market |-> "high"]}

StandardFrame ==
    <<[zone |-> "Southern_Plateau_Hills", soil_words |-> {"neutral"},
       carbon_potential |-> 25, market |-> "high"]>>

InitLoad ==
    /\ zone_mappings = ZoneMappings /\ database = None
    /\ farm_profile = None
    /\ IdleDetect /\ IdlePh /\ IdleScore /\ IdleGen /\ IdleBatch
    /\ pc = "ready"

\* FixedNABARDRecommendationEngine.__init__ on the three csv: one of them
\* with any rows, the others with one row; or a file missing
InitializeDatabase ==
    /\ pc = "ready"
    /\ \E found \in BOOLEAN, file \in {"rice", "crops", "agroforestry"} :
          \E df \in (IF found THEN ListsOf(CsvRows, MaxCsvRows) ELSE {<< >>}) :
              database' = _initialize_complete_database(
                  [found |-> found,
                   rice_df  |-> IF file = "rice" THEN df ELSE StandardFrame,
                   crops_df |-> IF file = "crops" THEN df ELSE StandardFrame,
                   agro_df  |-> IF file = "agroforestry" THEN df ELSE StandardFrame])
    /\ pc' = "loaded"
    /\ UNCHANGED <<zone_mappings, lat, lon, detected, detected_v1, raw_ph,
                   fixed_ph, farm_profile,
                   variety, score, score_v1, top_n, result, carbon, batch_vars>>

\* PerfectedNABARDRecommendationEngine.__init__
InitializeDatabaseV1 ==
    /\ pc = "ready"
    /\ database' = v1_initialize_complete_database
    /\ pc' = "loaded_v1"
    /\ UNCHANGED <<zone_mappings, lat, lon, detected, detected_v1, raw_ph,
                   fixed_ph, farm_profile,
                   variety, score, score_v1, top_n, result, carbon, batch_vars>>

NextLoad == InitializeDatabase \/ InitializeDatabaseV1

SpecLoad == InitLoad /\ [][NextLoad]_vars

---------------------------------------------------------------------------
(* create_farm_profile_from_data.  A data frame is a sequence of rows.      *)
(* A farm id is [kind, v]: a str, a number (numpy int64), or NaN, which     *)
(* equals nothing, itself included.  Means are exact on the rows of the     *)
(* model (the sums are multiples of the row counts).  temp_variability      *)
(* (a standard deviation) and the clay/sand/silt/SOC/CEC values, which      *)
(* nothing reads, are left out.                                             *)

StrId(v) == [kind |-> "str", v |-> v]

\* df['farm_id'] == farm_id, elementwise
IdEq(a, b) == a.kind # "nan" /\ b.kind # "nan" /\ a = b

RECURSIVE SelectRows(_, _, _)
SelectRows(df, farm_id, i) ==
    IF i > Len(df) THEN << >>
    ELSE IF IdEq(df[i].farm_id, farm_id)
         THEN <<df[i]>> \o SelectRows(df, farm_id, i + 1)
         ELSE SelectRows(df, farm_id, i + 1)

\* df[df['farm_id'] == farm_id]
RowsOf(df, farm_id) == SelectRows(df, farm_id, 1)

\* Series.sum() of a column
RECURSIVE SumOf(_, _, _)
SumOf(rows, column, i) ==
    IF i > Len(rows) THEN 0 ELSE rows[i][column] + SumOf(rows, column, i + 1)

\* Series.mean()
MeanOf(rows, column) == SumOf(rows, column, 1) \div Len(rows)

\* DataFrame.tail(30): the last 30 rows in the order of the frame
RecentWindow == 30
TailRows(rows) ==
    SubSeq(rows, Max(1, Len(rows) - RecentWindow + 1), Len(rows))

\* NDVI, EVI and LAI are in thousandths
VegetationHealth(ndvi_mean) ==
    IF ndvi_mean > 600 THEN "Excellent"
    ELSE IF ndvi_mean > 400 THEN "Good"
    ELSE IF ndvi_mean > 200 THEN "Fair"
    ELSE "Poor"

IsRainy(r) == r.precip > 0
IsDry(r) == r.precip = 0
IsHot(r) == r.temp_max > 35
IsKharif(r) == r.month \in {6, 7, 8, 9, 10}
IsRabi(r) == r.month \in {11, 12, 1, 2, 3}
IsVegetation(r) == r.data_type = "vegetation"
\* A plausible slip: NDVI <= 1.0 kept as clean.
IsCleanNdviInclusive(r) == r.NDVI <= 1000

IsCleanNdvi(r) == r.NDVI < 1000

\* [raised |-> TRUE] when an exception leaves the function, else the profile
create_farm_profile_from_data(zm, wdf, sdf, soildf, farm_id) ==
    LET farm_weather == RowsOf(wdf, farm_id)
        farm_satellite == SelectSeq(RowsOf(sdf, farm_id), IsVegetation)
        clean == SelectSeq(farm_satellite, IsCleanNdvi)
        farm_soil == RowsOf(soildf, farm_id)
        recent_data == TailRows(farm_weather)
        ndvi_mean == IF clean # << >> THEN MeanOf(clean, "NDVI") ELSE 200
        soil_ph_avg == IF farm_soil # << >>
                       THEN _fix_soil_ph_value(farm_soil[1].phh2o_avg)
                       ELSE DefaultPh
    IN  IF farm_weather = << >>
        THEN [raised |-> TRUE]          \* ValueError: no weather data
        ELSE IF farm_soil # << >> /\ FixSoilPhRaises(farm_soil[1].phh2o_avg)
        THEN [raised |-> TRUE]          \* TypeError in _fix_soil_ph_value
        ELSE [raised |-> FALSE,
              farm_id |-> farm_id,
              lat |-> farm_weather[1].lat,
              lon |-> farm_weather[1].lon,
              total_rainfall |-> SumOf(farm_weather, "precip", 1),
              rainy_days |-> Len(SelectSeq(farm_weather, IsRainy)),
              avg_temp |-> MeanOf(farm_weather, "temp"),
              avg_humidity |-> MeanOf(farm_weather, "humidity"),
              kharif_rainfall |-> SumOf(SelectSeq(farm_weather, IsKharif), "precip", 1),
              rabi_rainfall |-> SumOf(SelectSeq(farm_weather, IsRabi), "precip", 1),
              ndvi_mean |-> ndvi_mean,
              evi_mean |-> IF clean # << >> THEN MeanOf(clean, "EVI") ELSE 200,
              lai_mean |-> IF clean # << >> THEN MeanOf(clean, "LAI") ELSE 500,
              vegetation_health |-> VegetationHealth(ndvi_mean),
              soil_ph_avg |-> soil_ph_avg,
              ph_status |-> IF farm_soil # << >>
                            THEN _classify_ph_status(soil_ph_avg) ELSE "Neutral",
              texture |-> IF farm_soil # << >> THEN farm_soil[1].texture ELSE Loam,
              nutrient_status |-> IF farm_soil # << >>
                                  THEN farm_soil[1].nutrient_status ELSE "Moderate",
              heat_stress_days |-> Len(SelectSeq(farm_weather, IsHot)),
              drought_stress_days |-> Len(SelectSeq(farm_weather, IsDry)),
              recent_rainfall |-> SumOf(recent_data, "precip", 1),
              recent_avg_temp |-> MeanOf(recent_data, "temp"),
              recent_avg_humidity |-> MeanOf(recent_data, "humidity"),
              detected_zone |-> detect_zone_from_coordinates(
                                    zm, farm_weather[1].lat, farm_weather[1].lon),
              np |-> TRUE]
\* The v1 engine's create_farm_profile_from_data: the same statements up
\* to the soil part, where soil_ph_avg is the phh2o_avg cell as it is (no
\* correction) and ph_status is the soil file's ph_status cell, or
\* "Neutral" when the file has no such column (a row without the field).
v1_create_farm_profile_from_data(zm, wdf, sdf, soildf, farm_id) ==
    LET farm_weather == RowsOf(wdf, farm_id)
        farm_satellite == SelectSeq(RowsOf(sdf, farm_id), IsVegetation)
        clean == SelectSeq(farm_satellite, IsCleanNdvi)
        farm_soil == RowsOf(soildf, farm_id)
        recent_data == TailRows(farm_weather)
        ndvi_mean == IF clean # << >> THEN MeanOf(clean, "NDVI") ELSE 200
    IN  IF farm_weather = << >>
        THEN [raised |-> TRUE]          \* ValueError: no weather data
        ELSE [raised |-> FALSE,
              farm_id |-> farm_id,
              lat |-> farm_weather[1].lat,
              lon |-> farm_weather[1].lon,
              total_rainfall |-> SumOf(farm_weather, "precip", 1),
              rainy_days |-> Len(SelectSeq(farm_weather, IsRainy)),
              avg_temp |-> MeanOf(farm_weather, "temp"),
              avg_humidity |-> MeanOf(farm_weather, "humidity"),
              kharif_rainfall |-> SumOf(SelectSeq(farm_weather, IsKharif), "precip", 1),
              rabi_rainfall |-> SumOf(SelectSeq(farm_weather, IsRabi), "precip", 1),
              ndvi_mean |-> ndvi_mean,
              evi_mean |-> IF clean # << >> THEN MeanOf(clean, "EVI") ELSE 200,
              lai_mean |-> IF clean # << >> THEN MeanOf(clean, "LAI") ELSE 500,
              vegetation_health |-> VegetationHealth(ndvi_mean),
              soil_ph_avg |-> IF farm_soil = << >> THEN DefaultPh
                              ELSE IF farm_soil[1].phh2o_avg.nan \/ farm_soil[1].phh2o_avg.text
                              THEN farm_soil[1].phh2o_avg
                              ELSE farm_soil[1].phh2o_avg.v,
              ph_status |-> IF farm_soil # << >> /\ "ph_status" \in DOMAIN farm_soil[1]
                            THEN farm_soil[1].ph_status ELSE "Neutral",
              texture |-> IF farm_soil # << >> THEN farm_soil[1].texture ELSE Loam,
              nutrient_status |-> IF farm_soil # << >>
                                  THEN farm_soil[1].nutrient_status ELSE "Moderate",
              heat_stress_days |-> Len(SelectSeq(farm_weather, IsHot)),
              drought_stress_days |-> Len(SelectSeq(farm_weather, IsDry)),
              recent_rainfall |-> SumOf(recent_data, "precip", 1),
              recent_avg_temp |-> MeanOf(recent_data, "temp"),
              recent_avg_humidity |-> MeanOf(recent_data, "humidity"),
              detected_zone |-> v1_detect_zone_from_coordinates(
                                    zm, farm_weather[1].lat, farm_weather[1].lon),
              np |-> TRUE]

\* save_recommendations_as_json with filename None: the farm id is taken
\* from str(farm_profile) as the text between the first two quotes.  A str
\* farm_id is printed quoted and is that text; a numeric one is printed
\* without quotes, and the first quoted field is then vegetation_health.
SavedFarmName(res) ==
    IF res.farm_profile.farm_id.kind = "str"
    THEN res.farm_profile.farm_id.v
    ELSE res.farm_profile.vegetation_health

\* weather_df['farm_id'].unique(): first occurrences, in order; NaN once
RECURSIVE UniqueIds(_, _, _)
UniqueIds(df, i, seen) ==
    IF i > Len(df) THEN seen
    ELSE IF \E k \in 1..Len(seen) : seen[k] = df[i].farm_id
         THEN UniqueIds(df, i + 1, seen)
         ELSE UniqueIds(df, i + 1, Append(seen, df[i].farm_id))

---------------------------------------------------------------------------
(* Claims about the scorer (SpecScore).                                     *)

InRange(range, v) == range[1] <= v /\ v <= range[2]

AllInRange(p, v) ==
    /\ v.complete
    /\ InRange(v.rainfall_range, p.total_rainfall)
    /\ InRange(v.temp_range, p.avg_temp)
    /\ InRange(v.ph_tolerance, p.soil_ph_avg)

\* C1: for every profile and every variety, zero range bounds included,
\* calculate_enhanced_suitability_score (of the v2 and of the v1 engine)
\* returns a value s with 0.0 <= s <= 1.0 and never raises.
C1_ScoreInUnitInterval ==
    /\ pc = "scored" => (score.d > 0 /\ 0 <= score.n /\ score.n <= score.d)
    /\ pc = "scored_v1" =>
          /\ ~score_v1.raised
          /\ score_v1.d > 0 /\ 0 <= score_v1.n /\ score_v1.n <= score_v1.d

\* The v2 engine alone: the value returned is inside the interval.
V2ScoreInUnitInterval ==
    pc = "scored" => (score.d > 0 /\ 0 <= score.n /\ score.n <= score.d)

\* A zero bound was divided by (numpy: inf), a term above 1 or the other
\* terms were added, and the value returned is inside the interval.
C1_Witness ==
    /\ pc = "scored" /\ variety.complete /\ farm_profile.np
    /\ variety.temp_range[2] = 0 /\ farm_profile.avg_temp > 0
    /\ variety.rainfall_range[1] = 0 /\ farm_profile.total_rainfall = 0
    /\ score.n > 0 /\ score.n < score.d

\* C5: rainfall, temperature and pH inside the variety's ranges and the
\* detected zone in its zone list give a score of at least 0.95, whatever
\* the bonuses and the stress penalty.
C5_ExactMatchFloor ==
    (/\ pc = "scored"
     /\ AllInRange(farm_profile, variety)
     /\ farm_profile.detected_zone \in variety.zones)
    => score.n * 100 >= 95 * score.d

\* The floor's case with the stress penalty and no bonus at all.
C5_Witness ==
    /\ pc = "scored"
    /\ AllInRange(farm_profile, variety)
    /\ farm_profile.detected_zone \in variety.zones
    /\ farm_profile.heat_stress_days > 60
    /\ variety.market_value = "High" /\ variety.carbon_potential <= 50
    /\ farm_profile.vegetation_health = "Poor"
    /\ ~IsSubstring(variety.soil_preference, farm_profile.texture)
    /\ score.n * 100 >= 95 * score.d

---------------------------------------------------------------------------
(* Claims about zone detection (SpecDetect).                                *)

NoBoxContains(zm, la, lo) == \A i \in 1..Len(zm) : ~Contains(zm[i], la, lo)

\* C3: for each of the 15 zones, the centre of its bounding box is detected
\* as that zone, although boxes overlap.
C3_CenterDetectsOwnZone ==
    \A i \in 1..Len(zone_mappings) :
        (/\ pc = "detected"
         /\ lat = CenterLat(zone_mappings[i])
         /\ lon = CenterLon(zone_mappings[i]))
        => detected = zone_mappings[i].id

\* A centre that lies in another zone's box as well, listed earlier.
C3_Witness ==
    \E i, j \in 1..Len(zone_mappings) :
        /\ pc = "detected" /\ j < i
        /\ lat = CenterLat(zone_mappings[i]) /\ lon = CenterLon(zone_mappings[i])
        /\ Contains(zone_mappings[j], lat, lon)
        /\ detected = zone_mappings[i].id

\* C4: for a point inside no box the zone returned has a minimal distance
\* from the point to the box centre over all zones.
C4_FallbackIsNearestCenter ==
    (pc = "detected" /\ NoBoxContains(zone_mappings, lat, lon))
    => \E i \in 1..Len(zone_mappings) :
          /\ detected = zone_mappings[i].id
          /\ \A j \in 1..Len(zone_mappings) :
                Dist2(zone_mappings[i], lat, lon) <= Dist2(zone_mappings[j], lat, lon)

\* A point outside every box whose nearest centre is not the first zone's
\* and not the default zone's.
C4_Witness ==
    /\ pc = "detected" /\ NoBoxContains(zone_mappings, lat, lon)
    /\ detected \notin {"Zone_10_Southern_Plateau", zone_mappings[1].id}

---------------------------------------------------------------------------
(* Claims about the soil pH correction (SpecPh).                            *)

\* C6: the correction leaves every valid value (0 < v <= 14) unchanged and
\* turns 69.0 and 690.0 into 6.9.
C6_FixPhValidUnchanged ==
    pc = "fixed" =>
        /\ (~raw_ph.nan /\ 0 < raw_ph.v /\ raw_ph.v <= 14000) => fixed_ph = raw_ph.v
        /\ raw_ph = Num(69000) => fixed_ph = 6900
        /\ raw_ph = Num(690000) => fixed_ph = 6900

C6_Witness ==
    /\ pc = "fixed"
    /\ \/ raw_ph = Num(690000) /\ fixed_ph = 6900
       \/ raw_ph = Num(14000) /\ fixed_ph = 14000

---------------------------------------------------------------------------
(* Claims about generate_recommendations and the carbon blend (SpecGen).    *)

Categories == {"rice", "agroforestry", "crops"}

\* the database list a category name is filled from (category_mapping)
VarietiesOf(db, category_name) ==
    IF category_name = "rice" THEN db.rice_varieties
    ELSE IF category_name = "agroforestry" THEN db.agroforestry_species
    ELSE db.crop_varieties

Generated == pc \in {"generated", "blended"} /\ ~result.raised

ScoreAtLeast70(p, v) ==
    LET s == calculate_enhanced_suitability_score(p, v) IN s.n * 100 >= 70 * s.d

\* C2: each of the three lists has at most top_n entries, and every entry
\* belongs to a variety whose suitability score is >= 0.70.
C2_AtMostNAndThreshold ==
    Generated =>
        \A c \in Categories :
            LET recs == result.recommendations[c]
                varieties == VarietiesOf(database, c)
            IN  /\ Len(recs) <= top_n
                /\ \A k \in 1..Len(recs) :
                      \E i \in 1..Len(varieties) :
                          /\ varieties[i].id = recs[k].variety_id
                          /\ ScoreAtLeast70(farm_profile, varieties[i])

\* A list was cut to top_n entries while a further variety of the category
\* qualified, and a variety below the threshold was left out.
C2_Witness ==
    /\ Generated /\ top_n = 1
    /\ Len(result.recommendations.crops) = 1
    /\ Cardinality({i \in 1..Len(database.crop_varieties) :
                       ScoreAtLeast70(farm_profile, database.crop_varieties[i])}) >= 2
    /\ \E i \in 1..Len(database.crop_varieties) :
          /\ database.crop_varieties[i].complete
          /\ ~ScoreAtLeast70(farm_profile, database.crop_varieties[i])

\* carbon_potential of the i-th entry of a list, 0 when there is none
CarbonAt(recs, i) == IF Len(recs) >= i THEN recs[i].carbon_potential ELSE 0

\* C7: realistic_carbon = 0.4 * first rice + 0.3 * first crop + 0.2 * second
\* crop + 0.1 * first agroforestry entry (0 for a missing entry),
\* credits = realistic_carbon * 0.85, revenue = credits * 25.0.
C7_CarbonBlend ==
    pc = "blended" =>
        LET r == result.recommendations
            blend == 4 * CarbonAt(r.rice, 1) + 3 * CarbonAt(r.crops, 1)
                     + 2 * CarbonAt(r.crops, 2) + 1 * CarbonAt(r.agroforestry, 1)
            rc == carbon.realistic_carbon
            cr == carbon.estimated_credits
            rv == carbon.estimated_revenue
        IN  /\ rc.n * 100 = blend * rc.d
            /\ cr.n * rc.d * 100 = 85 * rc.n * cr.d
            /\ rv.n * cr.d = 25 * cr.n * rv.d
            /\ (r.rice = << >> /\ r.agroforestry = << >>)
                  => rc.n * 100 = (3 * CarbonAt(r.crops, 1) + 2 * CarbonAt(r.crops, 2)) * rc.d

\* Empty rice and agroforestry lists, two crops of different carbon.
C7_Witness ==
    /\ pc = "blended"
    /\ result.recommendations.rice = << >>
    /\ result.recommendations.agroforestry = << >>
    /\ Len(result.recommendations.crops) >= 2
    /\ result.recommendations.crops[1].carbon_potential
         # result.recommendations.crops[2].carbon_potential
    /\ carbon.estimated_revenue.n > 0

\* The end-to-end scenario: v is Premium with carbon 6.0, its ranges contain
\* the farm's values, it is the only variety of the database that lists
\* zone z, and the farm is at the centre of z's box.
EndToEndCase(db, p, z, v) ==
    /\ v.market_value = "Premium" /\ v.carbon_potential = 60
    /\ AllInRange(p, v)
    /\ z.id \in v.zones
    /\ \A i \in 1..Len(get_all_varieties(db)) :
          z.id \in get_all_varieties(db)[i].zones => get_all_varieties(db)[i] = v
    /\ p.lat = CenterLat(z) /\ p.lon = CenterLon(z)

\* v is the only and first entry of its category's list, with a score of at
\* least 0.70, and the blended carbon is greater than 0.
SoleTopEntry(res, v) ==
    /\ Len(res.recommendations[v.category]) = 1
    /\ res.recommendations[v.category][1].variety_id = v.id
    /\ res.recommendations[v.category][1].suitability_score >= 700
    /\ res.realistic_carbon_potential > 0

OnlySuitableOfCategory(db, p, v) ==
    \A j \in 1..Len(VarietiesOf(db, v.category)) :
        VarietiesOf(db, v.category)[j] # v
        => ~ScoreAtLeast70(p, VarietiesOf(db, v.category)[j])

---------------------------------------------------------------------------
(* SpecBatch: analyze_all_farms over the frames of a few farms, one action  *)
(* per step of a farm's iteration, then the combined save, then the loop    *)
(* of main.py over the farms file.  Every farm has the same two weather     *)
(* rows at the centre of Zone_10; a farm differs by its id and its soil     *)
(* row.  Writing a file can fail (the environment decides).                 *)

MaxFarms == 3

\* the plans: at most MaxFarms distinct ids (two strings, a number, NaN),
\* each with a kind of soil row (none, a numeric pH, a textual pH)
Plans ==
    {pl \in ListsOf({StrId("FARM_A"), StrId("FARM_B"),
                         [kind |-> "num", v |-> "7"], [kind |-> "nan", v |-> ""]}
                        \X {"none", "ok", "text"}, MaxFarms) :
        \A i, j \in 1..Len(pl) : i # j => pl[i][1] # pl[j][1]}

\* the rows a plan entry e = <<id, kind of soil row>> puts into one of the
\* frames
PlanRows(e, frame) ==
    CASE frame = "weather" ->
           << [farm_id |-> e[1], lat |-> 32, lon |-> 154, date |-> 1, month |-> 7,
               precip |-> 5, temp |-> 26, temp_max |-> 30, humidity |-> 60],
              [farm_id |-> e[1], lat |-> 32, lon |-> 154, date |-> 2, month |-> 12,
               precip |-> 4, temp |-> 28, temp_max |-> 36, humidity |-> 70] >>
      [] frame = "satellite" ->
           IF e[1].kind = "str"
           THEN << [farm_id |-> e[1], data_type |-> "vegetation",
                    NDVI |-> 500, EVI |-> 300, LAI |-> 1500] >>
           ELSE << >>
      [] frame = "soil" ->
           IF e[2] = "none" THEN << >>
           ELSE << [farm_id |-> e[1],
                    phh2o_avg |-> IF e[2] = "ok" THEN Num(69000) ELSE Text,
                    texture |-> Loam, nutrient_status |-> "Moderate"] >>
      [] frame = "farms" -> <<[farm_id |-> e[1]]>>

RECURSIVE Frame(_, _, _)
Frame(pl, frame, i) ==
    IF i > Len(pl) THEN << >> ELSE PlanRows(pl[i], frame) \o Frame(pl, frame, i + 1)

BatchDatabase ==
    [rice_varieties       |-> <<ById(RicePool, "RICE_002")>>,
     agroforestry_species |-> <<ById(AgroPool, "AGRO_001")>>,
     crop_varieties       |-> <<ById(CropPool, "CROP_001"), ById(CropPool, "CROP_002")>>]

\* a catalog whose varieties all belong to the west coast
WestCoastDatabase ==
    [rice_varieties       |-> <<Variety("RICE_003", "rice", {Z12}, 25, "High", <<6000, 7500>>, <<20, 40>>, <<22, 32>>, Alluvial)>>,
     agroforestry_species |-> << >>,
     crop_varieties       |-> <<Variety("CROP_005", "crops", {Z12}, 40, "High", <<5500, 6500>>, <<20, 40>>, <<22, 32>>, Clay)>>]

InitBatch ==
    /\ zone_mappings = ZoneMappings
    /\ database \in {BatchDatabase, WestCoastDatabase, FallbackDatabase}
    /\ \E pl \in Plans :
          /\ weather_df = Frame(pl, "weather", 1)
          /\ satellite_df = Frame(pl, "satellite", 1)
          /\ soil_df = Frame(pl, "soil", 1)
          /\ farms_df = Frame(pl, "farms", 1)
    /\ farm_ids = << >> /\ idx = 0 /\ stage = ""
    /\ cur_profile = None /\ cur_recs = None /\ cur_file = ""
    /\ all_results = << >> /\ files = {} /\ log = << >> /\ summary = None
    /\ farm_profile = None
    /\ IdleDetect /\ IdlePh /\ IdleScore /\ IdleGen
    /\ pc = "ready"

engine_vars == <<zone_mappings, database, lat, lon, detected, detected_v1, raw_ph,
                   fixed_ph,
                 farm_profile, variety, score, score_v1, top_n, result, carbon>>
frame_vars == <<weather_df, satellite_df, soil_df, farms_df>>

\* farm_ids = weather_df['farm_id'].unique(); all_results = {}
StartBatch ==
    /\ pc = "ready"
    /\ farm_ids' = UniqueIds(weather_df, 1, << >>)
    /\ idx' = 1 /\ stage' = "build" /\ pc' = "loop"
    /\ UNCHANGED <<engine_vars, frame_vars, cur_profile, cur_recs, cur_file,
                   all_results, files, log, summary>>

\* except Exception: logger.error(...); continue
AfterErrorBreak(i, n) == n + 1
AfterError(i, n) == i + 1

\* A plausible slip: the farm entered into the result by the error branch
\* too, with whatever the steps had reached.
FarmFailsRecorded(at) ==
    /\ log' = Append(log, [farm_id |-> farm_ids[idx], event |-> "error", stage |-> at])
    /\ idx' = AfterError(idx, Len(farm_ids))
    /\ stage' = "build"
    /\ cur_profile' = None /\ cur_recs' = None /\ cur_file' = ""
    /\ all_results' = Append(all_results,
                             [farm_id |-> farm_ids[idx],
                              recommendations |-> cur_recs,
                              filename |-> cur_file])

FarmFails(at) ==
    /\ log' = Append(log, [farm_id |-> farm_ids[idx], event |-> "error", stage |-> at])
    /\ idx' = AfterError(idx, Len(farm_ids))
    /\ stage' = "build"
    /\ cur_profile' = None /\ cur_recs' = None /\ cur_file' = ""
    /\ UNCHANGED all_results

InFarm(st) == pc = "loop" /\ idx <= Len(farm_ids) /\ stage = st

BuildProfile ==
    /\ InFarm("build")
    /\ LET r == create_farm_profile_from_data(zone_mappings, weather_df,
                                              satellite_df, soil_df, farm_ids[idx])
       IN  IF r.raised
           THEN FarmFails("build")
           ELSE /\ cur_profile' = r
                /\ stage' = "generate"
                /\ UNCHANGED <<idx, cur_recs, cur_file, all_results, log>>
    /\ UNCHANGED <<engine_vars, frame_vars, farm_ids, files, summary, pc>>

\* A plausible slip: the crops of the catalog itself put in another order
\* while they are ranked (a sort of the catalog list in place).
GenerateForFarmInPlace ==
    /\ InFarm("generate")
    /\ LET r == generate_recommendations(database, zone_mappings, cur_profile, DefaultTopN)
       IN  IF r.raised
           THEN FarmFails("generate")
           ELSE /\ cur_recs' = r
                /\ stage' = "save"
                /\ UNCHANGED <<idx, cur_profile, cur_file, all_results, log>>
    /\ database' = [database EXCEPT !.crop_varieties =
                       [k \in 1..Len(@) |-> @[Len(@) + 1 - k]]]
    /\ UNCHANGED <<zone_mappings, lat, lon, detected, detected_v1, raw_ph,
                   fixed_ph, farm_profile,
                   variety, score, score_v1, top_n, result, carbon>>
    /\ UNCHANGED <<frame_vars, farm_ids, files, summary, pc>>

GenerateForFarm ==
    /\ InFarm("generate")
    /\ LET r == generate_recommendations(database, zone_mappings, cur_profile, DefaultTopN)
       IN  IF r.raised
           THEN FarmFails("generate")
           ELSE /\ cur_recs' = r
                /\ stage' = "save"
                /\ UNCHANGED <<idx, cur_profile, cur_file, all_results, log>>
    /\ UNCHANGED <<engine_vars, frame_vars, farm_ids, files, summary, pc>>

SaveForFarm ==
    /\ InFarm("save")
    /\ \E written \in BOOLEAN :
          IF written
          THEN /\ cur_file' = SavedFarmName(cur_recs)
               /\ files' = files \cup {SavedFarmName(cur_recs)}
               /\ stage' = "record"
               /\ UNCHANGED <<idx, cur_profile, cur_recs, all_results, log>>
          ELSE /\ FarmFails("save")
               /\ UNCHANGED files
    /\ UNCHANGED <<engine_vars, frame_vars, farm_ids, summary, pc>>

\* all_results[farm_id] = {...}; the ids of the loop are distinct
RecordFarm ==
    /\ InFarm("record")
    /\ all_results' = Append(all_results,
                             [farm_id |-> farm_ids[idx],
                              recommendations |-> cur_recs,
                              filename |-> cur_file])
    /\ log' = Append(log, [farm_id |-> farm_ids[idx], event |-> "ok", stage |-> "record"])
    /\ idx' = idx + 1 /\ stage' = "build"
    /\ cur_profile' = None /\ cur_recs' = None /\ cur_file' = ""
    /\ UNCHANGED <<engine_vars, frame_vars, farm_ids, files, summary, pc>>

\* json.dump of a dict raises TypeError on a numpy int64 key
UnencodableKey(res) == \E k \in 1..Len(res) : res[k].farm_id.kind = "num"

SaveCombined ==
    /\ pc = "loop" /\ idx > Len(farm_ids)
    /\ \E written \in BOOLEAN :
          IF written /\ ~UnencodableKey(all_results)
          THEN /\ files' = files \cup {"all_perfected_recommendations_FIXED"}
               /\ pc' = "returned"
          ELSE /\ UNCHANGED files
               /\ pc' = "raised"
    /\ UNCHANGED <<engine_vars, frame_vars, farm_ids, idx, stage, cur_profile,
                   cur_recs, cur_file, all_results, log, summary>>

HasResult(res, farm_id) == \E k \in 1..Len(res) : IdEq(res[k].farm_id, farm_id)

RECURSIVE IdsWithResult(_, _, _)
IdsWithResult(df, res, i) ==
    IF i > Len(df) THEN << >>
    ELSE IF HasResult(res, df[i].farm_id)
         THEN <<df[i].farm_id>> \o IdsWithResult(df, res, i + 1)
         ELSE IdsWithResult(df, res, i + 1)

RECURSIVE IdsWithoutResult(_, _, _)
IdsWithoutResult(df, res, i) ==
    IF i > Len(df) THEN << >>
    ELSE IF HasResult(res, df[i].farm_id)
         THEN IdsWithoutResult(df, res, i + 1)
         ELSE <<df[i].farm_id>> \o IdsWithoutResult(df, res, i + 1)

\* main.py: the loop over farms_df after analyze_all_farms has returned
ReportOldFormat ==
    /\ pc = "returned"
    /\ LET found == IdsWithResult(farms_df, all_results, 1)
       IN  \E unwritten \in SUBSET {k \in 1..Len(found) : TRUE} :
              LET saved == {found[k] : k \in (1..Len(found)) \ unwritten}
              IN  /\ summary' = [successful_farms |-> Len(found) - Cardinality(unwritten),
                                 total_farms |-> Len(farms_df),
                                 saved |-> saved,
                                 warned |-> IdsWithoutResult(farms_df, all_results, 1),
                                 ok |-> Len(found) - Cardinality(unwritten) > 0]
                  /\ files' = files \cup {<<"agricultural_recommendations", f>> : f \in saved}
    /\ pc' = "reported"
    /\ UNCHANGED <<engine_vars, frame_vars, farm_ids, idx, stage, cur_profile,
                   cur_recs, cur_file, all_results, log>>

\* main.py: analyze_all_farms raised; the outer except logs and gives up
ReportFailure ==
    /\ pc = "raised"
    /\ summary' = [successful_farms |-> 0, total_farms |-> Len(farms_df),
                   saved |-> {}, warned |-> << >>, ok |-> FALSE]
    /\ pc' = "reported"
    /\ UNCHANGED <<engine_vars, frame_vars, farm_ids, idx, stage, cur_profile,
                   cur_recs, cur_file, all_results, files, log>>

NextBatch ==
    \/ StartBatch
    \/ BuildProfile
    \/ GenerateForFarm
    \/ SaveForFarm
    \/ RecordFarm
    \/ SaveCombined
    \/ ReportOldFormat
    \/ ReportFailure

SpecBatch == InitBatch /\ [][NextBatch]_vars

---------------------------------------------------------------------------
(* Claims about the batch (SpecBatch).                                      *)

LoopDone == pc \in {"loop", "returned", "raised", "reported"} /\ idx > Len(farm_ids)

BuildRaises(farm_id) ==
    create_farm_profile_from_data(zone_mappings, weather_df, satellite_df,
                                  soil_df, farm_id).raised

\* what the steps of one farm do, looked at on their own
OwnStepsSucceed(i) ==
    /\ ~BuildRaises(farm_ids[i])
    /\ ~(log[i].event = "error" /\ log[i].stage \in {"generate", "save"})

EntriesOf(farm_id) == {k \in 1..Len(all_results) : all_results[k].farm_id = farm_id}

\* C9: a failure in one farm's build, generation or save is confined to
\* that farm: when the loop is over every farm id of the weather frame has
\* been processed, in order, a farm has an entry in the result exactly when
\* its own steps succeeded, whatever happened to the other farms, and the
\* result that is returned is that one.
C9_FailureConfinedToFarm ==
    /\ pc \in {"loop", "returned", "raised", "reported"} =>
          /\ Len(log) <= Len(farm_ids)
          /\ \A i \in 1..Len(log) :
                /\ log[i].farm_id = farm_ids[i]
                /\ LET own == OwnStepsSucceed(i)
                       entries == EntriesOf(farm_ids[i])
                   IN  /\ own <=> Cardinality(entries) = 1
                       /\ ~own <=> entries = {}
    /\ LoopDone => Len(log) = Len(farm_ids)

C9_Witness ==
    /\ pc = "returned"
    /\ \E i, j, k \in 1..Len(log) :
          /\ i < j /\ j < k
          /\ log[i].event = "error" /\ log[i].stage = "build"
          /\ log[j].event = "ok" /\ EntriesOf(farm_ids[j]) # {}
          /\ log[k].event = "error" /\ log[k].stage = "save"

TotalRecommendations(entry) ==
    Len(entry.recommendations.recommendations.rice)
    + Len(entry.recommendations.recommendations.agroforestry)
    + Len(entry.recommendations.recommendations.crops)

\* C10: after a batch run every farm whose profile build failed appears in
\* the batch summary with zero recommendations and an explicit failure
\* marker.
C10_FailedFarmInSummary ==
    pc = "returned" =>
        \A i \in 1..Len(farm_ids) :
            BuildRaises(farm_ids[i]) =>
                \E k \in 1..Len(all_results) :
                    /\ all_results[k].farm_id = farm_ids[i]
                    /\ "error" \in DOMAIN all_results[k]
                    /\ TotalRecommendations(all_results[k]) = 0

\* the farm's profile as the batch builds it from the frames
BuiltProfile(farm_id) ==
    create_farm_profile_from_data(zone_mappings, weather_df, satellite_df,
                                  soil_df, farm_id)

NoneSuitable(db, p) ==
    LET varieties == get_all_varieties(db)
    IN  \A i \in 1..Len(varieties) : ~ScoreAtLeast70(p, varieties[i])

EmptyResult(res) ==
    /\ ~res.raised
    /\ res.recommendations.rice = << >>
    /\ res.recommendations.agroforestry = << >>
    /\ res.recommendations.crops = << >>
    /\ res.suitable_varieties_found = 0
    /\ res.realistic_carbon_potential = 0
    /\ res.estimated_annual_credits = 0
    /\ res.estimated_revenue = 0

\* C11: when no variety of any category reaches 0.70 for a farm,
\* generate_recommendations completes normally and returns three empty
\* category lists with carbon, credits and revenue all 0, and
\* analyze_all_farms records the farm as an analysed farm: the only way
\* such a farm is left out is a failed write of its own file.
C11_EmptyResultIsValid ==
    /\ pc = "loop" /\ idx <= Len(farm_ids) /\ stage \in {"save", "record"}
          /\ NoneSuitable(database, cur_profile)
       => EmptyResult(cur_recs)
    /\ \A i \in 1..Len(log) :
          LET built == BuiltProfile(farm_ids[i])
          IN  ~built.raised /\ NoneSuitable(database, built)
              => /\ ~(log[i].event = "error" /\ log[i].stage = "generate")
                 /\ log[i].event = "ok" \/ log[i].stage = "save"
                 /\ log[i].event = "ok" =>
                       \E k \in 1..Len(all_results) :
                           /\ all_results[k].farm_id = farm_ids[i]
                           /\ EmptyResult(all_results[k].recommendations)

C11_Witness ==
    /\ pc = "returned"
    /\ database = WestCoastDatabase
    /\ \E k \in 1..Len(all_results) :
          /\ NoneSuitable(database, all_results[k].recommendations.farm_profile)
          /\ EmptyResult(all_results[k].recommendations)
          /\ all_results[k].recommendations.total_varieties_evaluated = 2

---------------------------------------------------------------------------
(* Claims about malformed ranges (SpecRank, SpecScore).                     *)

IsInverted(range) == range[1] > range[2]

HasInvertedRange(v) ==
    /\ v.complete
    /\ \/ IsInverted(v.rainfall_range)
       \/ IsInverted(v.temp_range)
       \/ IsInverted(v.ph_tolerance)

Listed(recs, v) == \E k \in 1..Len(recs) : recs[k].variety_id = v.id

\* C12: a variety whose rainfall, temperature or pH range is inverted
\* (min > max) is skipped by generate_recommendations: it appears in no
\* returned list, and the other varieties are still scored, so that a
\* well-formed variety at 0.70 or more is left out only by the cut to
\* top_n.
C12_InvertedRangeSkipped ==
    Generated =>
        \A c \in Categories :
            LET recs == result.recommendations[c]
                varieties == VarietiesOf(database, c)
            IN  \A i \in 1..Len(varieties) :
                    /\ HasInvertedRange(varieties[i]) => ~Listed(recs, varieties[i])
                    /\ ~HasInvertedRange(varieties[i])
                          /\ ScoreAtLeast70(farm_profile, varieties[i])
                       => Listed(recs, varieties[i]) \/ Len(recs) = top_n

\* the crop with rainfall_range [1400, 600] heads the crops list with the
\* top score, before a well-formed crop
C12_Witness ==
    /\ Generated
    /\ Len(result.recommendations.crops) = 2
    /\ result.recommendations.crops[1].variety_id = InvertedCrop.id
    /\ result.recommendations.crops[1].suitability_score = 1000
    /\ result.recommendations.crops[2].variety_id = NeutralCrop.id

\* the division of the range term has the bound 0 as its denominator
ZeroDenominator(range, v) ==
    /\ ~InRange(range, v)
    /\ (IF v < range[1] THEN range[1] ELSE range[2]) = 0

DividesByZero(p, v) ==
    /\ v.complete
    /\ \/ ZeroDenominator(v.rainfall_range, p.total_rainfall)
       \/ ZeroDenominator(v.temp_range, p.avg_temp)
       \/ ZeroDenominator(v.ph_tolerance, p.soil_ph_avg)

\* The range term with the guard: at a zero denominator a farm value >= 0
\* counts as in range, a negative one is measured against the larger bound.
GuardedMatch(range, v, k) ==
    IF ~ZeroDenominator(range, v)
    THEN LET m == RangeMatch(range, v, k, TRUE) IN [n |-> m.n, d |-> m.d]
    ELSE IF v >= 0 \/ Max(range[1], range[2]) <= 0 THEN One
         ELSE Frac(Max(0, Max(range[1], range[2]) - k * (range[1] - v)),
                   Max(range[1], range[2]))

\* the score with guarded range terms and every other term added
GuardedScore(p, v) ==
    LET r == GuardedMatch(v.rainfall_range, p.total_rainfall, 1)
        t == GuardedMatch(v.temp_range, p.avg_temp, 1)
        h == GuardedMatch(v.ph_tolerance, p.soil_ph_avg, 2)
        w == recommendation_rules
    IN  Clamp01(Frac((ZoneScore(p, v) + FlatTerms(p, v)) * r.d * t.d * h.d
                     + w.climate_compatibility.rainfall_match * r.n * t.d * h.d
                     + w.climate_compatibility.temperature_match * t.n * r.d * h.d
                     + w.soil_compatibility.ph_match * h.n * r.d * t.d,
                     100 * r.d * t.d * h.d))

\* C13: when a range bound used as denominator is 0 the scorer does not
\* divide by zero and keeps the rest of the score: the range term is the
\* guarded one (in range for a farm value >= 0, else measured against the
\* larger bound) and the zone, other range, bonus and penalty terms are
\* added to it.
C13_ZeroBoundGuard ==
    pc = "scored" /\ DividesByZero(farm_profile, variety)
        => FracEq(score, GuardedScore(farm_profile, variety))

\* temp_range [-5, 0] and a farm at 27 degrees: with Python floats the score
\* is 0.0 although zone, rainfall and pH match; with numpy floats the
\* temperature term is 0 and the score stays below the guarded one
C13_Witness ==
    /\ pc = "scored" /\ DividesByZero(farm_profile, variety)
    /\ farm_profile.detected_zone \in variety.zones
    /\ InRange(variety.rainfall_range, farm_profile.total_rainfall)
    /\ InRange(variety.ph_tolerance, farm_profile.soil_ph_avg)
    /\ farm_profile.avg_temp = 27
    /\ \/ ~farm_profile.np /\ score = Zero
       \/ /\ farm_profile.np /\ FracGt(score, Zero)
          /\ FracGt(GuardedScore(farm_profile, variety), score)

---------------------------------------------------------------------------
(* Claims about the zone catalog (SpecDetect, SpecCatalog).                 *)

Containing(zm, la, lo) == {i \in 1..Len(zm) : Contains(zm[i], la, lo)}

\* C16: when at least one box contains the point (bounds inclusive) the
\* zone returned is a containing zone whose centre is nearest to the point
\* among the containing zones, the earliest of the catalog among those at
\* that distance; a zone that does not contain the point is not returned,
\* even if its centre is nearer.
C16_NearestContainingZone ==
    (pc = "detected" /\ Containing(zone_mappings, lat, lon) # {})
    => \E i \in Containing(zone_mappings, lat, lon) :
          /\ detected = zone_mappings[i].id
          /\ \A j \in Containing(zone_mappings, lat, lon) :
                /\ Dist2(zone_mappings[i], lat, lon) <= Dist2(zone_mappings[j], lat, lon)
                /\ Dist2(zone_mappings[i], lat, lon) = Dist2(zone_mappings[j], lat, lon)
                   => i <= j

\* a point on the edge of the box returned, with a second containing zone
\* at the same distance later in the catalog
C16_Witness ==
    /\ pc = "detected"
    /\ \E i, j \in Containing(zone_mappings, lat, lon) :
          /\ i < j
          /\ detected = zone_mappings[i].id
          /\ Dist2(zone_mappings[i], lat, lon) = Dist2(zone_mappings[j], lat, lon)
          /\ \/ lat \in {2 * zone_mappings[i].lat_range[1], 2 * zone_mappings[i].lat_range[2]}
             \/ lon \in {2 * zone_mappings[i].lon_range[1], 2 * zone_mappings[i].lon_range[2]}

\* C14: with an empty zone catalog zone detection ends in a fatal
\* configuration error: no zone id is returned.
C14_EmptyCatalogIsFatal ==
    (pc = "detected" /\ zone_mappings = << >>) => detected \notin ZoneIds(ZoneMappings)

\* zone detection has returned the default zone for an empty catalog
C14_Witness ==
    /\ pc = "detected" /\ zone_mappings = << >>
    /\ detected = "Zone_10_Southern_Plateau"
    /\ lat = GridLatMax /\ lon = GridLonMin

---------------------------------------------------------------------------
(* Claims about the order of a list and the confidence (SpecRank).          *)

\* the place of the variety of an entry in its category's catalog list
CatalogIndex(varieties, id) == CHOOSE i \in 1..Len(varieties) : varieties[i].id = id

\* the score as the scorer computes it, and as the entry reports it
ScorerScore(p, v) == calculate_enhanced_suitability_score(p, v)
ReportedScore(p, v) == Round(ScorerScore(p, v), 3)

NumberSuitable(p, varieties) ==
    Cardinality({i \in 1..Len(varieties) : ScoreAtLeast70(p, varieties[i])})

\* C15 as the spec has it: each list is in descending order of the score the
\* scorer computed, equal scores in catalog order, and the entries kept are
\* the first top_n of that order.
C15_OrderedByScorerScore ==
    Generated =>
        \A c \in Categories :
            LET recs == result.recommendations[c]
                varieties == VarietiesOf(database, c)
                at(k) == CatalogIndex(varieties, recs[k].variety_id)
                s(i) == ScorerScore(farm_profile, varieties[i])
                Before(i, j) == FracGt(s(i), s(j)) \/ (FracEq(s(i), s(j)) /\ i < j)
            IN  /\ Len(recs) = Min(top_n, NumberSuitable(farm_profile, varieties))
                /\ \A k, l \in 1..Len(recs) : k < l => Before(at(k), at(l))
                /\ \A k \in 1..Len(recs) : \A i \in 1..Len(varieties) :
                      (ScoreAtLeast70(farm_profile, varieties[i]) /\ ~Listed(recs, varieties[i]))
                      => Before(at(k), i)

\* C15, amended: the order is that of the reported score, the scorer's
\* score rounded to three decimals; varieties whose reported scores are
\* equal appear in catalog order, whatever their unrounded scores; the
\* entries kept are the first top_n of that order.
C15_OrderedByReportedScore ==
    Generated =>
        \A c \in Categories :
            LET recs == result.recommendations[c]
                varieties == VarietiesOf(database, c)
                at(k) == CatalogIndex(varieties, recs[k].variety_id)
                s(i) == ReportedScore(farm_profile, varieties[i])
                Before(i, j) == s(i) > s(j) \/ (s(i) = s(j) /\ i < j)
            IN  /\ Len(recs) = Min(top_n, NumberSuitable(farm_profile, varieties))
                /\ \A k \in 1..Len(recs) : recs[k].suitability_score = s(at(k))
                /\ \A k, l \in 1..Len(recs) : k < l => Before(at(k), at(l))
                /\ \A k \in 1..Len(recs) : \A i \in 1..Len(varieties) :
                      (ScoreAtLeast70(farm_profile, varieties[i]) /\ ~Listed(recs, varieties[i]))
                      => Before(at(k), i)

\* top_n = 1, and of two crops reported at 0.75 the one kept is the earlier
\* of the catalog, whose unrounded score is the lower one
C15_Witness ==
    /\ Generated /\ top_n = 1
    /\ \E i, j \in 1..Len(database.crop_varieties) :
          /\ i < j
          /\ result.recommendations.crops = <<Recommendation(database.crop_varieties[i], "crops",
                                               ScorerScore(farm_profile, database.crop_varieties[i]))>>
          /\ ReportedScore(farm_profile, database.crop_varieties[i]) = 750
          /\ ReportedScore(farm_profile, database.crop_varieties[j]) = 750
          /\ FracGt(ScorerScore(farm_profile, database.crop_varieties[j]),
                    ScorerScore(farm_profile, database.crop_varieties[i]))
    /\ NumberSuitable(farm_profile, database.crop_varieties) = 2
    /\ Len(database.crop_varieties) = 2

\* every variety at 0.70 or more is listed unless the cut to top_n left it
\* out, and nothing below 0.70 is listed: the confidence is not looked at
KeptByScoreAlone ==
    \A c \in Categories :
        LET recs == result.recommendations[c]
            varieties == VarietiesOf(database, c)
        IN  /\ Len(recs) = Min(top_n, NumberSuitable(farm_profile, varieties))
            /\ \A i \in 1..Len(varieties) :
                  Listed(recs, varieties[i]) => ScoreAtLeast70(farm_profile, varieties[i])

EntriesOfResult ==
    UNION {{result.recommendations[c][k] : k \in 1..Len(result.recommendations[c])} :
              c \in Categories}

\* C17 as the spec has it: the reported confidence_level (ten-thousandths)
\* is 0.85 times the reported suitability_score (thousandths) and lies in
\* [0, 1]; which varieties are kept is decided by the score alone.
C17_ConfidenceOfReportedScore ==
    Generated =>
        /\ \A e \in EntriesOfResult :
              /\ 2 * e.confidence_level = 17 * e.suitability_score
              /\ 0 <= e.confidence_level /\ e.confidence_level <= 10000
        /\ KeptByScoreAlone

\* C17, amended: the reported confidence_level is 0.85 times the scorer's
\* unrounded score, rounded to four decimals; it is within 0.0005 of 0.85
\* times the reported score and lies in [0, 1]; which varieties are kept is
\* decided by the score alone.
C17_ConfidenceOfScorerScore ==
    Generated =>
        /\ \A c \in Categories :
              LET recs == result.recommendations[c]
                  varieties == VarietiesOf(database, c)
              IN  \A k \in 1..Len(recs) :
                      LET s == ScorerScore(farm_profile,
                                           varieties[CatalogIndex(varieties, recs[k].variety_id)])
                      IN  /\ recs[k].confidence_level = Round(Frac(85 * s.n, 100 * s.d), 4)
                          /\ Abs(2 * recs[k].confidence_level - 17 * recs[k].suitability_score) <= 10
                          /\ 0 <= recs[k].confidence_level /\ recs[k].confidence_level <= 10000
        /\ KeptByScoreAlone

\* an entry reported with score 0.75 and confidence 0.6374: below 0.70, and
\* not 0.85 * 0.75 = 0.6375
C17_Witness ==
    /\ Generated
    /\ \E e \in EntriesOfResult :
          e.suitability_score = 750 /\ e.confidence_level = 6374

---------------------------------------------------------------------------
(* Claims about the catalog after initialisation (SpecLoad).                *)

Loaded == pc \in {"loaded", "loaded_v1"}

\* C18: every variety of the catalog an engine holds after initialisation
\* has min <= max for each tolerance range it has (rainfall_range,
\* temp_range, ph_tolerance); no variety with an inverted range is in the
\* catalog used for scoring.  (The entries of the fallback catalog have no
\* range at all.)
C18_CatalogRangesOrdered ==
    Loaded =>
        \A i \in 1..Len(get_all_varieties(database)) :
            LET v == get_all_varieties(database)[i]
            IN  /\ ~HasInvertedRange(v)
                /\ v.complete =>
                      /\ v.rainfall_range[1] <= v.rainfall_range[2]
                      /\ v.temp_range[1] <= v.temp_range[2]
                      /\ v.ph_tolerance[1] <= v.ph_tolerance[2]

\* the v1 catalog with its 147 entries, among them RICE_008 whose generated
\* rainfall range is [1200, 1200]
C18_Witness ==
    /\ pc = "loaded_v1"
    /\ Len(get_all_varieties(database)) = 147
    /\ \E i \in 1..Len(database.rice_varieties) :
          /\ database.rice_varieties[i].id = <<"RICE", 8>>
          /\ database.rice_varieties[i].rainfall_range = <<1200, 1200>>

---------------------------------------------------------------------------
(* Claims about the steps of a batch (SpecBatch).                           *)

\* C19: scoring is read-only: no step of a batch, and so no call of
\* generate_recommendations or of the scorer it calls, for any number of
\* farms, changes the variety database or the zone mappings, and the
\* profile handed to generate_recommendations is the one left after it.
\* (The rule weight table is a constant of the model: nothing assigns it.)
C19_ScoringIsReadOnly ==
    [][/\ database' = database
       /\ zone_mappings' = zone_mappings
       /\ (stage = "generate" /\ stage' = "save") => cur_profile' = cur_profile]_vars

\* two farms scored one after the other against the catalog of four
\* varieties, each with recommendations, and the profile kept in each
\* result is the profile built for the farm
C19_Witness ==
    /\ pc = "returned" /\ database = BatchDatabase
    /\ Len(all_results) = 2
    /\ \A k \in 1..Len(all_results) :
          /\ TotalRecommendations(all_results[k]) > 0
          /\ all_results[k].recommendations.farm_profile = BuiltProfile(all_results[k].farm_id)

\* the profile of the farm in hand is built, with the zone detected for
\* its coordinates
ProfileBuilt ==
    /\ cur_profile = BuiltProfile(farm_ids[idx])
    /\ ~cur_profile.raised
    /\ cur_profile.detected_zone =
          detect_zone_from_coordinates(zone_mappings, cur_profile.lat, cur_profile.lon)

\* the recommendations of the farm in hand are generated, from its profile
RecommendationsGenerated ==
    /\ cur_recs # None /\ ~cur_recs.raised
    /\ cur_recs.farm_profile = cur_profile
    /\ cur_recs.detected_zone = cur_profile.detected_zone

\* C20: within one farm the stages run in sequence: nothing is scored for
\* the farm before its profile, detected zone included, is built; nothing
\* is saved before the recommendations are generated; and the farm's entry
\* is in the batch result only when build, generation and saving have all
\* been completed for it.
C20_StagesInSequence ==
    /\ (pc = "loop" /\ idx <= Len(farm_ids)) =>
          /\ EntriesOf(farm_ids[idx]) = {}
          /\ stage = "build" => cur_profile = None /\ cur_recs = None /\ cur_file = ""
          /\ stage = "generate" => ProfileBuilt /\ cur_recs = None /\ cur_file = ""
          /\ stage = "save" => ProfileBuilt /\ RecommendationsGenerated /\ cur_file = ""
          /\ stage = "record" =>
                ProfileBuilt /\ RecommendationsGenerated /\ cur_file \in files
    /\ \A k \in 1..Len(all_results) :
          /\ LET built == BuiltProfile(all_results[k].farm_id)
             IN  /\ ~built.raised
                 /\ all_results[k].recommendations # None
                 /\ all_results[k].recommendations.farm_profile = built
          /\ all_results[k].filename \in files
          /\ \E i \in 1..Len(log) :
                log[i].farm_id = all_results[k].farm_id /\ log[i].event = "ok"

\* the second farm of a batch about to be entered into the result, its file
\* written, after the first farm's build failed
C20_Witness ==
    /\ pc = "loop" /\ idx = 2 /\ stage = "record"
    /\ ProfileBuilt /\ RecommendationsGenerated /\ cur_file \in files
    /\ log = <<[farm_id |-> farm_ids[1], event |-> "error", stage |-> "build"]>>
    /\ all_results = << >>

---------------------------------------------------------------------------
(* Claims about the scoring formula (SpecScore).                            *)

\* a range with 0 < low <= high
PositiveRange(range) == 0 < range[1] /\ range[1] <= range[2]

HasPositiveRanges(v) ==
    /\ v.complete
    /\ PositiveRange(v.rainfall_range)
    /\ PositiveRange(v.temp_range)
    /\ PositiveRange(v.ph_tolerance)

\* the match of the formula, as a fraction: 1 in range, else
\* max(0, 1 - k * d) with d the distance beyond the nearer bound divided by
\* that bound
FormulaMatch(range, x, k) ==
    IF range[1] <= x /\ x <= range[2] THEN One
    ELSE IF x < range[1]
         THEN Frac(Max(0, range[1] - k * (range[1] - x)), range[1])
         ELSE Frac(Max(0, range[2] - k * (x - range[2])), range[2])

\* the terms of the formula that do not depend on a range, in hundredths
FormulaFlat(p, v) ==
      (IF p.detected_zone \in v.zones THEN 50 ELSE 5)
    + (IF IsSubstring(v.soil_preference, p.texture) THEN 15 ELSE 0)
    + (IF p.nutrient_status \in {"Good", "Excellent"} /\ v.market_value = "Premium"
       THEN 10 ELSE 0)
    + (IF p.vegetation_health \in {"Good", "Excellent"} THEN 5 ELSE 0)
    - (IF p.heat_stress_days > 60 \/ p.drought_stress_days > 180 THEN 10 ELSE 0)
    + (IF v.market_value = "Premium" THEN 5 ELSE 0)
    + (IF v.carbon_potential > 50 THEN 10 ELSE 0)

\* the sum of the formula before the clamp
FormulaSum(p, v) ==
    LET r == FormulaMatch(v.rainfall_range, p.total_rainfall, 1)
        t == FormulaMatch(v.temp_range, p.avg_temp, 1)
        h == FormulaMatch(v.ph_tolerance, p.soil_ph_avg, 2)
    IN  Frac(FormulaFlat(p, v) * r.d * t.d * h.d
             + 25 * r.n * t.d * h.d + 20 * t.n * r.d * h.d + 25 * h.n * r.d * t.d,
             100 * r.d * t.d * h.d)

---------------------------------------------------------------------------
(* Claims about the rule of the soil pH correction (SpecPh).                *)

\* the three-way rule on a number: above 100 a hundredth, above 14 a tenth,
\* else the value itself (thousandths; the raw values are multiples of 0.1)
ThreeWayRule(v, fixed) ==
    /\ v > 100000 => 100 * fixed = v
    /\ (14000 < v /\ v <= 100000) => 10 * fixed = v
    /\ v <= 14000 => fixed = v

\* C22 as stated: the three-way rule for every raw value, 0 and negative
\* values included (they are used as they are).
C22_ThreeWayRuleEveryValue ==
    (pc = "fixed" /\ ~raw_ph.nan) => ThreeWayRule(raw_ph.v, fixed_ph)

\* C22: the three-way rule holds for every raw value above 0 (above 100 a
\* hundredth, above 14 and up to 100 a tenth, up to 14 as it is); a raw
\* value of 0 or below, and a missing one, gives the neutral default 7.0.
C22_ThreeWayRuleAboveZero ==
    pc = "fixed" =>
        /\ (~raw_ph.nan /\ raw_ph.v > 0) => ThreeWayRule(raw_ph.v, fixed_ph)
        /\ (raw_ph.nan \/ raw_ph.v <= 0) => fixed_ph = DefaultPh

\* a raw value of 0 or below has been corrected, and not to itself
C22_Witness ==
    /\ pc = "fixed" /\ ~raw_ph.nan /\ raw_ph.v <= 0
    /\ fixed_ph # raw_ph.v

\* C27: for every raw soil pH, 0, negative values and values above 1400
\* included, the corrected value lies on the pH scale, 0 < pH <= 14, and
\* correcting it a second time changes nothing.
C27_CorrectedOnScale ==
    pc = "fixed" =>
        /\ 0 < fixed_ph /\ fixed_ph <= 14000
        /\ _fix_soil_ph_value(Num(fixed_ph)) = fixed_ph

\* a raw value above 1400 has been corrected, to a hundredth of itself
C27_Witness ==
    /\ pc = "fixed" /\ ~raw_ph.nan /\ raw_ph.v > 1400000
    /\ 100 * fixed_ph = raw_ph.v

---------------------------------------------------------------------------
(* Claims about varieties that match in full (SpecRank).                    *)

\* the zone matches and rainfall, temperature and pH are in range
FullMatch(p, v) == AllInRange(p, v) /\ p.detected_zone \in v.zones

\* C26: a variety whose zone matches and whose rainfall, temperature and pH
\* ranges hold the farm's values scores exactly 1.0, whatever the bonuses
\* and the stress penalty; such varieties tie, so within a category they
\* are listed in catalog order and, when top_n cuts the list, the ones kept
\* are the first of the catalog.
C26_FullMatchScoresOne ==
    Generated =>
        \A c \in Categories :
            LET recs == result.recommendations[c]
                varieties == VarietiesOf(database, c)
                at(k) == CatalogIndex(varieties, recs[k].variety_id)
                full(i) == FullMatch(farm_profile, varieties[i])
            IN  /\ \A i \in 1..Len(varieties) :
                      full(i) => ScorerScore(farm_profile, varieties[i]) = One
                /\ \A k \in 1..Len(recs) :
                      full(at(k)) => recs[k].suitability_score = 1000
                /\ \A k, l \in 1..Len(recs) :
                      (k < l /\ full(at(k)) /\ full(at(l))) => at(k) < at(l)
                /\ \A k \in 1..Len(recs) : \A i \in 1..Len(varieties) :
                      (full(at(k)) /\ full(i) /\ ~Listed(recs, varieties[i])) => at(k) < i

\* a farm under heat and drought stress; the crop without any bonus stands
\* before the crop with every bonus in the catalog and in the list, both at
\* 1.0, and with top_n = 1 the one without bonus is the one kept
C26_Witness ==
    /\ Generated
    /\ farm_profile.heat_stress_days > 60 /\ farm_profile.drought_stress_days > 180
    /\ Len(database.crop_varieties) >= 2
    /\ database.crop_varieties[1].id = "CROP_104"
    /\ database.crop_varieties[2].id = "CROP_001"
    /\ FullMatch(farm_profile, database.crop_varieties[1])
    /\ FullMatch(farm_profile, database.crop_varieties[2])
    /\ FlatTerms(farm_profile, database.crop_varieties[1]) < 0
    /\ FlatTerms(farm_profile, database.crop_varieties[2]) > 0
    /\ top_n = 1
    /\ Len(result.recommendations.crops) = 1
    /\ result.recommendations.crops[1].variety_id = "CROP_104"
    /\ result.recommendations.crops[1].suitability_score = 1000

---------------------------------------------------------------------------
(* SpecVariants: the v1 and the v2 engine given the same input, either a    *)
(* point of the grid (detect_zone_from_coordinates) or a profile and a      *)
(* variety of SpecScore (calculate_enhanced_suitability_score).  Each       *)
(* engine works on its own zone catalog.                                    *)

InitVariants ==
    /\ zone_mappings = ZoneMappings /\ database = FallbackDatabase
    /\ detected = "" /\ detected_v1 = ""
    /\ score = None /\ score_v1 = None
    /\ \/ /\ lat \in GridLatMin..GridLatMax /\ lon \in GridLonMin..GridLonMax
          /\ farm_profile = None /\ variety = None
       \/ /\ lat = 0 /\ lon = 0
          /\ farm_profile \in ScoreProfiles /\ variety \in ScoreVarieties
    /\ IdlePh /\ IdleGen /\ IdleBatch
    /\ pc = "ready"

DetectZoneBothEngines ==
    /\ pc = "ready" /\ farm_profile = None
    /\ detected' = detect_zone_from_coordinates(zone_mappings, lat, lon)
    /\ detected_v1' = v1_detect_zone_from_coordinates(v1_zone_mappings, lat, lon)
    /\ pc' = "detected_both"
    /\ UNCHANGED <<zone_mappings, database, lat, lon, raw_ph, fixed_ph, farm_profile,
                   variety, score, score_v1, top_n, result, carbon, batch_vars>>

CalculateScoreBothEngines ==
    /\ pc = "ready" /\ farm_profile # None
    /\ score' = calculate_enhanced_suitability_score(farm_profile, variety)
    /\ score_v1' = v1_calculate_enhanced_suitability_score(farm_profile, variety)
    /\ pc' = "scored_both"
    /\ UNCHANGED <<zone_mappings, database, lat, lon, detected, detected_v1, raw_ph,
                   fixed_ph, farm_profile, variety, top_n, result, carbon, batch_vars>>

SpecVariants ==
    InitVariants /\ [][DetectZoneBothEngines \/ CalculateScoreBothEngines]_vars

\* every bound of the variety's three ranges is non-zero
NonZeroBounds(v) ==
    \A r \in {v.rainfall_range, v.temp_range, v.ph_tolerance} : r[1] # 0 /\ r[2] # 0

SameScore == ~score_v1.raised /\ score_v1.n = score.n /\ score_v1.d = score.d

---------------------------------------------------------------------------
(* SpecFiles: analyze_all_farms over up to three farms whose ids are two    *)
(* strings and two numbers, each farm with a readable soil row.             *)

InitFiles ==
    /\ zone_mappings = ZoneMappings /\ database = BatchDatabase
    /\ \E pl \in ListsOf({StrId("FARM_A"), StrId("FARM_B"),
                          [kind |-> "num", v |-> "7"], [kind |-> "num", v |-> "8"]}
                         \X {"ok"}, 3) :
          /\ Distinct(pl)
          /\ weather_df = Frame(pl, "weather", 1)
          /\ satellite_df = Frame(pl, "satellite", 1)
          /\ soil_df = Frame(pl, "soil", 1)
          /\ farms_df = Frame(pl, "farms", 1)
    /\ farm_ids = << >> /\ idx = 0 /\ stage = ""
    /\ cur_profile = None /\ cur_recs = None /\ cur_file = ""
    /\ all_results = << >> /\ files = {} /\ log = << >> /\ summary = None
    /\ farm_profile = None
    /\ IdleDetect /\ IdlePh /\ IdleScore /\ IdleGen
    /\ pc = "ready"

SpecFiles == InitFiles /\ [][NextBatch]_vars

\* C30: in a batch run two distinct farm ids, strings or numbers, get two
\* distinct per-farm files: the entries of all_results for two farms never
\* name the same file.
C30_DistinctFilePerFarm ==
    \A i, j \in 1..Len(all_results) :
        all_results[i].farm_id # all_results[j].farm_id
            => all_results[i].filename # all_results[j].filename

\* The farms 7 and 8 have both been saved and recorded, under one file
\* name, and the directory holds one per-farm file for the two of them.
C30_Witness ==
    /\ pc = "loop" /\ idx > Len(farm_ids)
    /\ \E i, j \in 1..Len(all_results) :
          /\ all_results[i].farm_id = [kind |-> "num", v |-> "7"]
          /\ all_results[j].farm_id = [kind |-> "num", v |-> "8"]
          /\ all_results[i].filename = all_results[j].filename
          /\ all_results[i].filename = "Poor"
    /\ Len(all_results) = 2 /\ Cardinality(files) = 1

---------------------------------------------------------------------------
(* SpecProfile: create_farm_profile_from_data of the v2 and of the v1       *)
(* engine on the frames of one farm, FARM_001, then what reads the          *)
(* profile: generate_recommendations (v2) or the scorer (v1).               *)
(*                                                                          *)
(* The weather rows are the days of one July, in several orders: two days,  *)
(* thirty days, or all 31 (more than the window) sorted by date, with the   *)
(* latest day first, or reversed; or no row at all.  Day 1 is dry air and   *)
(* rain, day 31 humid, so that the window's values tell which rows it       *)
(* holds; the values keep every mean exact.  The farm lies at the centre    *)
(* of Zone_10, in the overlap of Zone_5 and Zone_6, on the edge of Zone_10  *)
(* inside Zone_12, or outside every box to the south-west or north-east.    *)
(* The satellite frame has up to two rows: vegetation rows of the farm with *)
(* NDVI from 0.2 to 1.4, a row of another data type, a row of another farm. *)
(* The soil frame has no row or one row whose phh2o_avg runs over the band  *)
(* edges, scaled encodings, 0 and a negative value.                         *)

InitProfile ==
    /\ zone_mappings = ZoneMappings /\ database = BatchDatabase
    /\ \E pt \in {<<32, 154>>, <<58, 155>>, <<31, 148>>, <<6, 130>>, <<80, 202>>},
          order \in {"none", "two", "two_reversed", "thirty_reversed",
                     "sorted", "latest_first", "reversed"} :
          LET Day(d) ==
                  [farm_id |-> StrId("FARM_001"), lat |-> pt[1], lon |-> pt[2],
                   date |-> d, month |-> 7,
                   precip |-> CASE d = 1 -> 3 [] d = 15 -> 5 [] d = 31 -> 1 [] OTHER -> 0,
                   temp |-> 30, temp_max |-> IF d = 15 THEN 36 ELSE 32,
                   humidity |-> CASE d = 1 -> 30 [] d = 31 -> 90 [] OTHER -> 60]
          IN  weather_df =
                  CASE order = "none" -> << >>
                    [] order = "two" -> <<Day(1), Day(31)>>
                    [] order = "two_reversed" -> <<Day(31), Day(1)>>
                    [] order = "thirty_reversed" -> [k \in 1..30 |-> Day(32 - k)]
                    [] order = "sorted" -> [k \in 1..31 |-> Day(k)]
                    [] order = "latest_first" ->
                           [k \in 1..31 |-> IF k = 1 THEN Day(31) ELSE Day(k - 1)]
                    [] order = "reversed" -> [k \in 1..31 |-> Day(32 - k)]
    /\ LET Veg(n) == [farm_id |-> StrId("FARM_001"), data_type |-> "vegetation",
                      NDVI |-> n, EVI |-> n \div 2, LAI |-> 2 * n]
           Soil(raw) == <<[farm_id |-> StrId("FARM_001"), phh2o_avg |-> Num(raw),
                           ph_status |-> "Acidic", texture |-> Loam,
                           nutrient_status |-> "Moderate"]>>
       IN  \E sat \in ListsOf({Veg(n) : n \in {200, 400, 600, 800, 1000, 1400}}
                              \cup {[Veg(800) EXCEPT !.data_type = "water"],
                                    [Veg(800) EXCEPT !.farm_id = StrId("FARM_002")]}, 2),
              soil \in {<< >>} \cup
                       {Soil(raw) : raw \in {-1000, 0, 5400, 5500, 5900, 6000, 6700, 6800,
                                             6900, 7200, 7300, 7800, 7900, 8500, 8600,
                                             14000, 14100, 69000, 70000, 100000,
                                             100100, 690000}} :
              /\ \/ sat \in {<< >>, <<Veg(600)>>}
                 \/ soil \in {<< >>, Soil(6900), Soil(69000)}
              /\ satellite_df = sat /\ soil_df = soil
    /\ farms_df = << >> /\ farm_ids = << >> /\ idx = 0 /\ stage = ""
    /\ cur_profile = None /\ cur_recs = None /\ cur_file = ""
    /\ all_results = << >> /\ files = {} /\ log = << >> /\ summary = None
    /\ farm_profile = None
    /\ variety = BatchDatabase.crop_varieties[1] /\ score = None /\ score_v1 = None
    /\ IdleDetect /\ IdlePh /\ IdleGen
    /\ pc = "ready"

CreateFarmProfile ==
    /\ pc = "ready"
    /\ LET r == create_farm_profile_from_data(zone_mappings, weather_df, satellite_df,
                                              soil_df, StrId("FARM_001"))
       IN  /\ farm_profile' = r
           /\ pc' = IF r.raised THEN "raised" ELSE "built"
    /\ UNCHANGED <<zone_mappings, database, lat, lon, detected, detected_v1, raw_ph,
                   fixed_ph, variety, score, score_v1, top_n, result, carbon, batch_vars>>

\* the same call on the v1 engine, which has its own zone catalog
CreateFarmProfileV1 ==
    /\ pc = "ready"
    /\ LET r == v1_create_farm_profile_from_data(v1_zone_mappings, weather_df,
                                                 satellite_df, soil_df, StrId("FARM_001"))
       IN  /\ farm_profile' = r
           /\ pc' = IF r.raised THEN "raised_v1" ELSE "built_v1"
    /\ UNCHANGED <<zone_mappings, database, lat, lon, detected, detected_v1, raw_ph,
                   fixed_ph, variety, score, score_v1, top_n, result, carbon, batch_vars>>

\* generate_recommendations(farm_profile) on the profile the v2 engine built
GenerateForBuilt ==
    /\ pc = "built"
    /\ top_n' = DefaultTopN
    /\ result' = generate_recommendations(database, zone_mappings, farm_profile, DefaultTopN)
    /\ pc' = "generated"
    /\ UNCHANGED <<zone_mappings, database, lat, lon, detected, detected_v1, raw_ph,
                   fixed_ph, farm_profile, variety, score, score_v1, carbon, batch_vars>>

\* the v1 scorer on the profile the v1 engine built
ScoreBuiltV1 ==
    /\ pc = "built_v1"
    /\ score_v1' = v1_calculate_enhanced_suitability_score(farm_profile, variety)
    /\ pc' = "scored_v1"
    /\ UNCHANGED <<zone_mappings, database, lat, lon, detected, detected_v1, raw_ph,
                   fixed_ph, farm_profile, variety, score, top_n, result, carbon, batch_vars>>

SpecProfile ==
    InitProfile
    /\ [][CreateFarmProfile \/ CreateFarmProfileV1 \/ GenerateForBuilt \/ ScoreBuiltV1]_vars

---------------------------------------------------------------------------
(* Claims about the profile builder (SpecProfile).                          *)

HasProfile == pc \in {"built", "generated", "built_v1", "scored_v1"}

OwnSoil == RowsOf(soil_df, StrId("FARM_001"))

\* the corrected pH of the farm: the correction applied to the first soil
\* row's phh2o_avg, 7.0 without a soil row
CorrectedPh ==
    IF OwnSoil = << >> THEN DefaultPh ELSE _fix_soil_ph_value(OwnSoil[1].phh2o_avg)

\* the bands of the pH classes
PhBand(ph) ==
    CASE ph < 5500 -> "Very Acidic"
      [] ph >= 5500 /\ ph < 6000 -> "Acidic"
      [] ph >= 6000 /\ ph < 6800 -> "Slightly Acidic"
      [] ph >= 6800 /\ ph <= 7200 -> "Neutral"
      [] ph > 7200 /\ ph <= 7800 -> "Slightly Alkaline"
      [] ph > 7800 /\ ph <= 8500 -> "Alkaline"
      [] ph > 8500 -> "Very Alkaline"

WithCorrectedPh == [farm_profile EXCEPT !.soil_ph_avg = CorrectedPh]

\* C23: in every profile built from data the pH correction comes before
\* classification and scoring: soil_ph_avg is the corrected value, ph_status
\* is the band of the corrected value, and the scores computed from the
\* profile are those of the corrected value, never of the raw one.
C23_CorrectedBeforeUse ==
    /\ HasProfile =>
          /\ farm_profile.soil_ph_avg = CorrectedPh
          /\ farm_profile.ph_status = PhBand(CorrectedPh)
    /\ (pc = "generated" /\ ~result.raised) =>
          \A c \in Categories :
              LET recs == result.recommendations[c]
                  varieties == VarietiesOf(database, c)
              IN  \A k \in 1..Len(recs) :
                      recs[k].suitability_score =
                          Round(calculate_enhanced_suitability_score(
                                    WithCorrectedPh,
                                    varieties[CatalogIndex(varieties, recs[k].variety_id)]), 3)
    /\ pc = "scored_v1" =>
          score_v1 = v1_calculate_enhanced_suitability_score(WithCorrectedPh, variety)

\* The v1 engine on a soil row with phh2o_avg = 69.0 (pH 6.9 times ten): the
\* profile keeps 69.0, its ph_status is the file's label and not the band
\* of 6.9, and the scorer's pH term is that of 69.0, so that CROP_001
\* scores less than it does on 6.9.
C23_Witness ==
    /\ pc = "scored_v1"
    /\ OwnSoil # << >> /\ OwnSoil[1].phh2o_avg = Num(69000)
    /\ CorrectedPh = 6900
    /\ farm_profile.soil_ph_avg = 69000
    /\ farm_profile.ph_status = "Acidic" /\ PhBand(CorrectedPh) = "Neutral"
    /\ ~score_v1.raised
    /\ FracGt(calculate_enhanced_suitability_score(WithCorrectedPh, variety),
              [n |-> score_v1.n, d |-> score_v1.d])

\* the farm's vegetation rows with NDVI < 1.0, in frame order
ValidVegetation ==
    LET Valid(r) == /\ r.farm_id = StrId("FARM_001") /\ r.data_type = "vegetation"
                    /\ r.NDVI < 1000
    IN  SelectSeq(satellite_df, Valid)

\* C24: the profile's vegetation values come only from the farm's
\* vegetation rows with NDVI < 1.0: their means, or the defaults 0.2, 0.2
\* and 0.5 when there is no such row; vegetation_health is Excellent for a
\* mean NDVI > 0.6, Good for > 0.4, Fair for > 0.2, otherwise Poor.
C24_VegetationFromValidRows ==
    HasProfile =>
        LET rows == ValidVegetation
            p == farm_profile
        IN  /\ rows = << >> =>
                  p.ndvi_mean = 200 /\ p.evi_mean = 200 /\ p.lai_mean = 500
            /\ rows # << >> =>
                  /\ p.ndvi_mean * Len(rows) = SumOf(rows, "NDVI", 1)
                  /\ p.evi_mean * Len(rows) = SumOf(rows, "EVI", 1)
                  /\ p.lai_mean * Len(rows) = SumOf(rows, "LAI", 1)
            /\ p.vegetation_health =
                  CASE p.ndvi_mean > 600 -> "Excellent"
                    [] p.ndvi_mean > 400 /\ p.ndvi_mean <= 600 -> "Good"
                    [] p.ndvi_mean > 200 /\ p.ndvi_mean <= 400 -> "Fair"
                    [] p.ndvi_mean <= 200 -> "Poor"

\* A frame with a row of NDVI 1.4 and a row of NDVI 0.6: the profile's mean
\* NDVI is 0.6, which is Good and not Excellent.
C24_Witness ==
    /\ pc = "built"
    /\ Len(satellite_df) = 2 /\ Len(ValidVegetation) = 1
    /\ \E k \in 1..2 : satellite_df[k].NDVI = 1400 /\ satellite_df[k].data_type = "vegetation"
    /\ farm_profile.ndvi_mean = 600 /\ farm_profile.evi_mean = 300
    /\ farm_profile.lai_mean = 1200
    /\ farm_profile.vegetation_health = "Good"

\* the farm's weather rows with the 30 latest dates (all of them when
\* there are fewer), in frame order
LatestByDate ==
    LET own == RowsOf(weather_df, StrId("FARM_001"))
        Late(r) == Cardinality({k \in 1..Len(own) : own[k].date > r.date}) < 30
    IN  SelectSeq(own, Late)

\* C25: whatever the order of the farm's weather rows, recent_rainfall,
\* recent_avg_temp and recent_avg_humidity are the sum and the means over
\* the 30 rows with the latest dates (over all rows when there are fewer
\* than 30).
C25_WindowByDate ==
    HasProfile =>
        LET rows == LatestByDate
        IN  /\ farm_profile.recent_rainfall = SumOf(rows, "precip", 1)
            /\ farm_profile.recent_avg_temp * Len(rows) = SumOf(rows, "temp", 1)
            /\ farm_profile.recent_avg_humidity * Len(rows) = SumOf(rows, "humidity", 1)

\* The 31 days of the month with the latest day first: the window is the
\* last 30 rows of the frame, days 1 to 30.  It holds day 1 (300 mm, 30 %
\* humidity) and not day 31 (100 mm, 90 % humidity): recent_rainfall is
\* 800 mm where the 30 latest days have 600 mm, recent_avg_humidity 59
\* where they have 61.
C25_Witness ==
    /\ pc = "built"
    /\ Len(weather_df) = 31 /\ weather_df[1].date = 31 /\ weather_df[31].date = 30
    /\ Len(LatestByDate) = 30 /\ LatestByDate[1].date = 31
    /\ SumOf(LatestByDate, "precip", 1) = 6
    /\ SumOf(LatestByDate, "humidity", 1) = 61 * 30
    /\ farm_profile.recent_rainfall = 8
    /\ farm_profile.recent_avg_humidity = 59

\* C29: the detected_zone of every profile create_farm_profile_from_data
\* produces is the id of a zone of the catalog, so the lookup of the zone's
\* characteristics in generate_recommendations does not fail: the call
\* returns, with the characteristics of that zone.
C29_DetectedZoneInCatalog ==
    /\ HasProfile => farm_profile.detected_zone \in ZoneIds(zone_mappings)
    /\ pc = "generated" =>
          /\ ~result.raised
          /\ result.detected_zone = farm_profile.detected_zone
          /\ \E i \in 1..Len(zone_mappings) :
                /\ zone_mappings[i].id = farm_profile.detected_zone
                /\ result.zone_characteristics = zone_mappings[i].climate_type

\* A farm at (3.0, 65.0), outside every box: its profile has the zone of the
\* closest centre, and generate_recommendations has returned.
C29_Witness ==
    /\ pc = "generated" /\ ~result.raised
    /\ NoBoxContains(zone_mappings, farm_profile.lat, farm_profile.lon)
    /\ farm_profile.lat = 6 /\ farm_profile.lon = 130
    /\ farm_profile.detected_zone = ClosestZone(zone_mappings, 6, 130).match
    /\ farm_profile.detected_zone \in ZoneIds(zone_mappings)

=============================================================================
